---- MODULE Spec2Model ----
(***************************************************************************)
(* Essay versioning, diff classification, progressive scoring and the     *)
(* review route of the essay-assist application.                           *)
(*                                                                         *)
(* A text is a sequence of one-character strings.                          *)
(***************************************************************************)
EXTENDS Integers, Sequences, FiniteSets, TLC

VARIABLES
    versions,      \* EssayDiffSystem.versions, in insertion order
    lastDiff,      \* the DiffResult returned by the last addVersion
    lastCall,      \* the arguments of the last addVersion
    clock,         \* the wall clock read by new Date()
    uuidsIssued,   \* the number of identifiers uuidv4() has handed out
    baselineScore,      \* ProgressiveScoringSystem.baselineScore
    scoreHistory,       \* ProgressiveScoringSystem.scoreHistory
    suggestionImpacts,  \* ProgressiveScoringSystem.suggestionImpacts
    lastTurn,           \* the last call of the scoring system and its outcome
    db,                 \* the essayAssist table: the row of each essay
    requests,           \* the review requests: position, locals, response
    filterCall,         \* a call of filterSuggestions: arguments and result
    genCall,            \* a call of generateSuggestions: arguments and result
    reviewLogic,        \* the state of useReviewLogic for one essay
    pureCall,           \* a call of a function without state: arguments and result
    editor              \* the state of the editor hook: React state, timers, requests

diffVars == <<versions, lastDiff, lastCall>>

scoreVars == <<baselineScore, scoreHistory, suggestionImpacts, lastTurn>>

routeVars == <<db, requests>>

clientVars == <<filterCall, genCall, reviewLogic, pureCall, editor>>

vars == <<versions, lastDiff, lastCall, clock, uuidsIssued,
          baselineScore, scoreHistory, suggestionImpacts, lastTurn, db, requests,
          filterCall, genCall, reviewLogic, pureCall, editor>>

Undefined == "undefined"

\* null or undefined where the program holds an object
Null == [null |-> TRUE]

\* no call of filterSuggestions or generateSuggestions, no hook mounted
ClientUnused ==
    /\ filterCall = Null
    /\ genCall = Null
    /\ reviewLogic = Null
    /\ pureCall = Null
    /\ editor = Null

\* the parentVersionId of a version that has none
NoVersion == 0

(***************************************************************************)
(* Bounds of the model.                                                    *)
(***************************************************************************)
MaxLen == 3
MaxApplied == 4
MaxOps == 3

Alphabet == {"a", "b", " "}

SuggestionIds == <<"s1", "s2", "s3", "s4", "s5", "s6">>

(***************************************************************************)
(* Strings.                                                                *)
(***************************************************************************)
Min(a, b) == IF a <= b THEN a ELSE b

Max(a, b) == IF a >= b THEN a ELSE b

IsSpace(c) == c = " "

RECURSIVE Concat(_)
Concat(tokens) ==
    IF tokens = <<>> THEN <<>> ELSE Head(tokens) \o Concat(Tail(tokens))

Slice(s, from, to) ==
    \* s.slice(from, to) with 0-based [from, to)
    IF to <= from THEN <<>> ELSE SubSeq(s, from + 1, Min(to, Len(s)))

RECURSIVE SpaceRun(_)
SpaceRun(t) ==
    \* the length of the maximal whitespace prefix of t
    IF t = <<>> \/ ~IsSpace(Head(t)) THEN 0 ELSE 1 + SpaceRun(Tail(t))

RECURSIVE SplitFrom(_, _, _)
SplitFrom(t, word, acc) ==
    IF t = <<>> THEN Append(acc, word)
    ELSE IF IsSpace(Head(t))
         THEN LET n == SpaceRun(t)
              IN  SplitFrom(SubSeq(t, n + 1, Len(t)), <<>>,
                            acc \o <<word, SubSeq(t, 1, n)>>)
         ELSE SplitFrom(Tail(t), Append(word, Head(t)), acc)

\* text.split(/(\s+)/): words and the whitespace runs between them
SplitKeepSpaces(text) == SplitFrom(text, <<>>, <<>>)

RECURSIVE TrimStart(_)
TrimStart(t) == IF t # <<>> /\ IsSpace(Head(t)) THEN TrimStart(Tail(t)) ELSE t

RECURSIVE TrimEnd(_)
TrimEnd(t) ==
    IF t # <<>> /\ IsSpace(t[Len(t)]) THEN TrimEnd(SubSeq(t, 1, Len(t) - 1)) ELSE t

Trim(t) == TrimEnd(TrimStart(t))

getWordCount(content) ==
    LET words == SplitKeepSpaces(Trim(content))
    IN  IF Trim(content) = <<>> THEN 0
        ELSE Cardinality({i \in 1..Len(words) : i % 2 = 1})

(***************************************************************************)
(* EssayDiffSystem: the word-level diff.                                   *)
(***************************************************************************)
maxLookAhead == 10

getRegion(charIndex, totalLength) ==
    \* charIndex / totalLength is NaN or Infinity when totalLength is 0
    IF totalLength = 0 THEN "end"
    ELSE IF 100 * charIndex < 33 * totalLength THEN "beginning"
    ELSE IF 100 * charIndex < 67 * totalLength THEN "middle"
    ELSE "end"

TextChange(start, end, old, new, type, totalLength) ==
    [startIndex |-> start, endIndex |-> end, oldText |-> old, newText |-> new,
     changeType |-> type, region |-> getRegion(start, totalLength)]

\* the pairs (i, j) the two lookahead loops visit that resynchronise
MatchPoints(oldWords, newWords, oldIndex, newIndex) ==
    {p \in (1..maxLookAhead) \X (1..maxLookAhead) :
        /\ p[1] + oldIndex < Len(oldWords)
        /\ p[2] + newIndex < Len(newWords)
        /\ oldWords[oldIndex + p[1] + 1] = newWords[newIndex + p[2] + 1]}

\* the first of them in loop order: i outermost, j innermost
FirstMatch(points) ==
    CHOOSE p \in points :
        \A q \in points : p[1] < q[1] \/ (p[1] = q[1] /\ p[2] <= q[2])

RECURSIVE DiffLoop(_, _, _, _, _, _, _)
DiffLoop(oldWords, newWords, oldIndex, newIndex, charOffset, total, changes) ==
    \* oldIndex and newIndex are 0-based, as in the source
    IF ~(oldIndex < Len(oldWords) \/ newIndex < Len(newWords)) THEN changes
    ELSE IF oldIndex >= Len(oldWords)
    THEN Append(changes,
            TextChange(charOffset, charOffset, <<>>,
                       Concat(SubSeq(newWords, newIndex + 1, Len(newWords))),
                       "addition", total))
    ELSE IF newIndex >= Len(newWords)
    THEN LET deletedText == Concat(SubSeq(oldWords, oldIndex + 1, Len(oldWords)))
         IN  Append(changes,
                TextChange(charOffset, charOffset + Len(deletedText), deletedText,
                           <<>>, "deletion", total))
    ELSE IF oldWords[oldIndex + 1] = newWords[newIndex + 1]
    THEN DiffLoop(oldWords, newWords, oldIndex + 1, newIndex + 1,
                  charOffset + Len(oldWords[oldIndex + 1]), total, changes)
    ELSE LET points == MatchPoints(oldWords, newWords, oldIndex, newIndex)
         IN  IF points # {}
             THEN LET p == FirstMatch(points)
                      oldChange == Concat(SubSeq(oldWords, oldIndex + 1, oldIndex + p[1]))
                      newChange == Concat(SubSeq(newWords, newIndex + 1, newIndex + p[2]))
                  IN  DiffLoop(oldWords, newWords, oldIndex + p[1], newIndex + p[2],
                               charOffset + Len(newChange), total,
                               Append(changes,
                                   TextChange(charOffset, charOffset + Len(oldChange),
                                              oldChange, newChange, "modification", total)))
             ELSE LET oldChange == oldWords[oldIndex + 1]
                      newChange == newWords[newIndex + 1]
                  IN  DiffLoop(oldWords, newWords, oldIndex + 1, newIndex + 1,
                               charOffset + Len(newChange), total,
                               Append(changes,
                                   TextChange(charOffset, charOffset + Len(oldChange),
                                              oldChange, newChange, "modification", total)))

findTextChanges(oldText, newText) ==
    DiffLoop(SplitKeepSpaces(oldText), SplitKeepSpaces(newText), 0, 0, 0,
             Len(oldText), <<>>)

RECURSIVE Distinct(_, _)
Distinct(regions, acc) ==
    \* Array.from(new Set(regions)): first occurrences, in order
    IF regions = <<>> THEN acc
    ELSE Distinct(Tail(regions),
                  IF \E i \in 1..Len(acc) : acc[i] = Head(regions)
                  THEN acc ELSE Append(acc, Head(regions)))

identifyAffectedRegions(oldContent, newContent) ==
    LET changes == findTextChanges(oldContent, newContent)
    IN  Distinct([i \in 1..Len(changes) |-> changes[i].region], <<>>)

\* computeDiff without the early return for identical contents
computeDiffNoEarlyReturn(oldContent, newContent, appliedSuggestionIds) ==
    [changes |-> findTextChanges(oldContent, newContent),
     changeType |-> IF Len(appliedSuggestionIds) > 3 THEN "bulk_suggestion_applied"
                    ELSE IF Len(appliedSuggestionIds) > 0 THEN "suggestion_applied"
                    ELSE "manual_edit",
     appliedSuggestionIds |-> appliedSuggestionIds,
     affectedRegions |-> identifyAffectedRegions(oldContent, newContent)]

\* computeDiff with the bulk threshold off by one (>= 3 instead of > 3)
computeDiffBulkAtThree(oldContent, newContent, appliedSuggestionIds) ==
    IF oldContent = newContent
    THEN [changes |-> <<>>, changeType |-> "no_change",
          appliedSuggestionIds |-> <<>>, affectedRegions |-> <<>>]
    ELSE [changes |-> findTextChanges(oldContent, newContent),
          changeType |-> IF Len(appliedSuggestionIds) >= 3 THEN "bulk_suggestion_applied"
                         ELSE IF Len(appliedSuggestionIds) > 0 THEN "suggestion_applied"
                         ELSE "manual_edit",
          appliedSuggestionIds |-> appliedSuggestionIds,
          affectedRegions |-> identifyAffectedRegions(oldContent, newContent)]

computeDiff(oldContent, newContent, appliedSuggestionIds) ==
    IF oldContent = newContent
    THEN [changes |-> <<>>, changeType |-> "no_change",
          appliedSuggestionIds |-> <<>>, affectedRegions |-> <<>>]
    ELSE IF Len(appliedSuggestionIds) > 0
    THEN [changes |-> findTextChanges(oldContent, newContent),
          changeType |-> IF Len(appliedSuggestionIds) > 3
                         THEN "bulk_suggestion_applied" ELSE "suggestion_applied",
          appliedSuggestionIds |-> appliedSuggestionIds,
          affectedRegions |-> identifyAffectedRegions(oldContent, newContent)]
    ELSE [changes |-> findTextChanges(oldContent, newContent),
          changeType |-> "manual_edit",
          appliedSuggestionIds |-> <<>>,
          affectedRegions |-> identifyAffectedRegions(oldContent, newContent)]

\* a determineChangeType that records the change type of the diff as it is
determineChangeTypeOfDiff(diff) == diff.changeType

determineChangeType(diff) ==
    IF diff.changeType = "no_change" THEN "manual_edit"
    ELSE IF Len(diff.appliedSuggestionIds) > 3 THEN "bulk_suggestion_applied"
    ELSE IF Len(diff.appliedSuggestionIds) > 0 THEN "suggestion_applied"
    ELSE "manual_edit"

NoDiff == [changes |-> <<>>, changeType |-> Undefined,
           appliedSuggestionIds |-> <<>>, affectedRegions |-> <<>>]

NoCall == [oldContent |-> <<>>, newContent |-> <<>>, appliedSuggestionIds |-> <<>>,
           found |-> FALSE, op |-> "none", threw |-> FALSE, storeBefore |-> <<>>]

getVersion(vs, id) ==
    IF \E i \in 1..Len(vs) : vs[i].id = id
    THEN vs[CHOOSE i \in 1..Len(vs) : vs[i].id = id]
    ELSE Null

createInitialVersion(vs, id, now, content) ==
    Append(vs, [id |-> id, content |-> content, timestamp |-> now,
                wordCount |-> getWordCount(content), changeType |-> "initial",
                appliedSuggestionIds |-> <<>>, parentVersionId |-> NoVersion])

\* a store that keeps one version per parent: the new version takes the place
\* of the previous one
addVersionInPlace(vs, id, now, content, previousVersionId, appliedSuggestionIds) ==
    LET previousVersion == getVersion(vs, previousVersionId)
        diff == computeDiff(previousVersion.content, content, appliedSuggestionIds)
        version == [id |-> id, content |-> content, timestamp |-> now,
                    wordCount |-> getWordCount(content),
                    changeType |-> determineChangeType(diff),
                    appliedSuggestionIds |-> appliedSuggestionIds,
                    parentVersionId |-> previousVersionId]
    IN  [versions |-> [i \in 1..Len(vs) |->
                          IF vs[i].id = previousVersionId THEN version ELSE vs[i]],
         version |-> version, diff |-> diff]

\* addVersion for a previousVersionId that is in the store
addVersion(vs, id, now, content, previousVersionId, appliedSuggestionIds) ==
    LET previousVersion == getVersion(vs, previousVersionId)
        diff == computeDiff(previousVersion.content, content, appliedSuggestionIds)
        version == [id |-> id, content |-> content, timestamp |-> now,
                    wordCount |-> getWordCount(content),
                    changeType |-> determineChangeType(diff),
                    \* undefined when the list is empty
                    appliedSuggestionIds |-> appliedSuggestionIds,
                    parentVersionId |-> previousVersionId]
    IN  [versions |-> Append(vs, version), version |-> version, diff |-> diff]

(***************************************************************************)
(* ProgressiveScoringSystem.                                               *)
(*                                                                         *)
(* evaluateChangeQuality adds 0.5 to a delta, so every score, boost, delta *)
(* and grade step of the model counts half points: Pts(n) is n points.     *)
(***************************************************************************)
Pts(n) == 2 * n

Grades == <<"F", "D-", "D", "D+", "C-", "C", "C+", "B-", "B", "B+", "A-", "A", "A+">>

\* grades.indexOf(grade), in half steps
indexOf(grade) ==
    IF \E i \in 1..Len(Grades) : Grades[i] = grade
    THEN Pts((CHOOSE i \in 1..Len(Grades) : Grades[i] = grade) - 1)
    ELSE Pts(-1)

\* grades[index]: undefined when index is no whole index of the array
gradeAt(index) ==
    IF index % 2 = 0 /\ index >= 0 /\ index <= Pts(Len(Grades) - 1)
    THEN Grades[(index \div 2) + 1]
    ELSE Undefined

improveGrade(currentGrade, steps) ==
    gradeAt(Min(Pts(Len(Grades) - 1), indexOf(currentGrade) + steps))

degradeGrade(currentGrade, steps) ==
    gradeAt(Max(0, indexOf(currentGrade) - steps))

\* the clamp left out
clampScoreMissing(value) == value

\* Math.max(0, Math.min(100, value))
clampScore(value) == Max(0, Min(Pts(100), value))

RECURSIVE SumOver(_, _)
\* the sum of f[x] over the elements of the sequence s
SumOver(s, f) == IF s = <<>> THEN 0 ELSE f[Head(s)] + SumOver(Tail(s), f)

Names(s) == {s[i] : i \in 1..Len(s)}

\* applySuggestionBoosts without the cap of 3 points on the overall boost
applySuggestionBoostsUncapped(score, appliedSuggestionIds, impacts) ==
    LET ids == Names(appliedSuggestionIds)
        known(id) == impacts[id] # Null
        totalBoost ==
            SumOver(appliedSuggestionIds,
                    [id \in ids |-> IF known(id) THEN impacts[id].scoreBoost ELSE Pts(1)])
        metricBoost(label) ==
            SumOver(appliedSuggestionIds,
                    [id \in ids |->
                        IF known(id) /\ label \in Names(impacts[id].affectedMetrics)
                        THEN impacts[id].scoreBoost ELSE 0])
        subGradeBoost(label) ==
            SumOver(appliedSuggestionIds,
                    [id \in ids |->
                        IF known(id) /\ label \in Names(impacts[id].affectedSubGrades)
                        THEN Pts(1) ELSE 0])
        cappedBoost == totalBoost
    IN  [score EXCEPT
            !.overallScore = Min(Pts(100), score.overallScore + cappedBoost),
            !.metrics = [i \in 1..Len(score.metrics) |->
                [score.metrics[i] EXCEPT
                    !.value = Min(Pts(100), @ + metricBoost(score.metrics[i].label))]],
            !.subGrades = [i \in 1..Len(score.subGrades) |->
                [score.subGrades[i] EXCEPT
                    !.grade = improveGrade(@, subGradeBoost(score.subGrades[i].label))]]]

\* suggestionImpacts.get(id) is undefined for an id that was never registered
\* applySuggestionBoosts that counts nothing for an id without a registered impact
applySuggestionBoostsNoDefault(score, appliedSuggestionIds, impacts) ==
    LET ids == Names(appliedSuggestionIds)
        known(id) == impacts[id] # Null
        totalBoost ==
            SumOver(appliedSuggestionIds,
                    [id \in ids |-> IF known(id) THEN impacts[id].scoreBoost ELSE 0])
        metricBoost(label) ==
            SumOver(appliedSuggestionIds,
                    [id \in ids |->
                        IF known(id) /\ label \in Names(impacts[id].affectedMetrics)
                        THEN impacts[id].scoreBoost ELSE 0])
        subGradeBoost(label) ==
            SumOver(appliedSuggestionIds,
                    [id \in ids |->
                        IF known(id) /\ label \in Names(impacts[id].affectedSubGrades)
                        THEN Pts(1) ELSE 0])
        cappedBoost == Min(Pts(3), totalBoost)
    IN  [score EXCEPT
            !.overallScore = Min(Pts(100), score.overallScore + cappedBoost),
            !.metrics = [i \in 1..Len(score.metrics) |->
                [score.metrics[i] EXCEPT
                    !.value = Min(Pts(100), @ + metricBoost(score.metrics[i].label))]],
            !.subGrades = [i \in 1..Len(score.subGrades) |->
                [score.subGrades[i] EXCEPT
                    !.grade = improveGrade(@, subGradeBoost(score.subGrades[i].label))]]]

\* applySuggestionBoosts with the cap of 3 points on every metric as well
applySuggestionBoostsMetricsCapped(score, appliedSuggestionIds, impacts) ==
    LET ids == Names(appliedSuggestionIds)
        known(id) == impacts[id] # Null
        totalBoost ==
            SumOver(appliedSuggestionIds,
                    [id \in ids |-> IF known(id) THEN impacts[id].scoreBoost ELSE Pts(1)])
        metricBoost(label) ==
            SumOver(appliedSuggestionIds,
                    [id \in ids |->
                        IF known(id) /\ label \in Names(impacts[id].affectedMetrics)
                        THEN impacts[id].scoreBoost ELSE 0])
        subGradeBoost(label) ==
            SumOver(appliedSuggestionIds,
                    [id \in ids |->
                        IF known(id) /\ label \in Names(impacts[id].affectedSubGrades)
                        THEN Pts(1) ELSE 0])
        cappedBoost == Min(Pts(3), totalBoost)
    IN  [score EXCEPT
            !.overallScore = Min(Pts(100), score.overallScore + cappedBoost),
            !.metrics = [i \in 1..Len(score.metrics) |->
                [score.metrics[i] EXCEPT
                    !.value = Min(Pts(100),
                                 @ + Min(Pts(3), metricBoost(score.metrics[i].label)))]],
            !.subGrades = [i \in 1..Len(score.subGrades) |->
                [score.subGrades[i] EXCEPT
                    !.grade = improveGrade(@, subGradeBoost(score.subGrades[i].label))]]]

applySuggestionBoosts(score, appliedSuggestionIds, impacts) ==
    LET ids == Names(appliedSuggestionIds)
        known(id) == impacts[id] # Null
        totalBoost ==
            SumOver(appliedSuggestionIds,
                    [id \in ids |-> IF known(id) THEN impacts[id].scoreBoost ELSE Pts(1)])
        metricBoost(label) ==
            SumOver(appliedSuggestionIds,
                    [id \in ids |->
                        IF known(id) /\ label \in Names(impacts[id].affectedMetrics)
                        THEN impacts[id].scoreBoost ELSE 0])
        subGradeBoost(label) ==
            SumOver(appliedSuggestionIds,
                    [id \in ids |->
                        IF known(id) /\ label \in Names(impacts[id].affectedSubGrades)
                        THEN Pts(1) ELSE 0])
        cappedBoost == Min(Pts(3), totalBoost)
    IN  [score EXCEPT
            !.overallScore = Min(Pts(100), score.overallScore + cappedBoost),
            !.metrics = [i \in 1..Len(score.metrics) |->
                [score.metrics[i] EXCEPT
                    !.value = Min(Pts(100), @ + metricBoost(score.metrics[i].label))]],
            !.subGrades = [i \in 1..Len(score.subGrades) |->
                [score.subGrades[i] EXCEPT
                    !.grade = improveGrade(@, subGradeBoost(score.subGrades[i].label))]]]

\* text.includes(word)
Includes(text, word) ==
    \E i \in 0..(Len(text) - Len(word)) : SubSeq(text, i + 1, i + Len(word)) = word

\* text.split(' ').length
SplitOnSpaceLength(text) == Cardinality({i \in 1..Len(text) : text[i] = " "}) + 1

complexWords ==
    << <<"d","e","m","o","n","s","t","r","a","t","e">>,
       <<"i","l","l","u","s","t","r","a","t","e">>,
       <<"e","x","e","m","p","l","i","f","y">>,
       <<"a","r","t","i","c","u","l","a","t","e">> >>

simpleWords ==
    << <<"s","h","o","w">>, <<"t","e","l","l">>, <<"s","a","y">>, <<"d","o">> >>

wordVery == <<"v","e","r","y">>

wordReally == <<"r","e","a","l","l","y">>

wordThereIs == <<"t","h","e","r","e"," ","i","s">>

wordThereAre == <<"t","h","e","r","e"," ","a","r","e">>

wordAlot == <<"a","l","o","t">>

wordALot == <<"a"," ","l","o","t">>

\* the texts of the model are lower case, where toLowerCase changes nothing
evaluateChangeQuality(change) ==
    LET oldText == change.oldText
        newText == change.newText
        lengthDelta ==
            IF Len(newText) > Len(oldText) /\ change.changeType = "addition"
            THEN (IF SplitOnSpaceLength(newText) > 5 THEN Pts(1) ELSE 1)
            ELSE IF Len(newText) < Len(oldText) /\ change.changeType = "deletion"
            THEN (IF Includes(oldText, wordVery) \/ Includes(oldText, wordReally)
                  THEN Pts(1) ELSE -1)
            ELSE 0
        complexityDelta ==
            IF /\ \E i \in 1..Len(complexWords) : Includes(newText, complexWords[i])
               /\ \E i \in 1..Len(simpleWords) : Includes(oldText, simpleWords[i])
            THEN Pts(1) ELSE 0
        grammarDelta ==
            (IF Includes(oldText, wordThereIs) /\ Includes(newText, wordThereAre)
             THEN 1 ELSE 0)
            + (IF Includes(oldText, wordAlot) /\ Includes(newText, wordALot)
               THEN 1 ELSE 0)
    IN  Max(Pts(-2), Min(Pts(2), lengthDelta + complexityDelta + grammarDelta))

\* getAffectedMetricsForChange that takes a change at the end for one in the middle
getAffectedMetricsForChangeEndAsMiddle(change) ==
    (IF change.region = "beginning" THEN <<"Clarity">> ELSE <<>>)
    \o (IF change.region \in {"middle", "end"} THEN <<"Delivery", "Quality">> ELSE <<>>)

getAffectedMetricsForChange(change) ==
    (IF change.region = "beginning" THEN <<"Clarity">> ELSE <<>>)
    \o (IF change.region = "middle" THEN <<"Delivery", "Quality">> ELSE <<>>)
    \o (IF change.region = "end" THEN <<"Quality">> ELSE <<>>)

getAffectedSubGradesForChange(change) ==
    (IF change.region = "beginning" THEN <<"Hook", "Structure">> ELSE <<>>)
    \o (IF change.region = "middle" THEN <<"Structure", "Uniqueness">> ELSE <<>>)
    \o (IF change.region = "end" THEN <<"Structure">> ELSE <<>>)

\* evaluateManualEdits without the cap of the summed delta to [-5, +3]
evaluateManualEditsUncapped(score, diff) ==
    LET changes == diff.changes
        idx == [i \in 1..Len(changes) |-> i]
        delta == [i \in 1..Len(changes) |-> evaluateChangeQuality(changes[i])]
        qualityDelta == SumOver(idx, delta)
        metricDelta(label) ==
            SumOver(idx, [i \in 1..Len(changes) |->
                IF label \in Names(getAffectedMetricsForChange(changes[i]))
                THEN delta[i] ELSE 0])
        subGradeDelta(label) ==
            SumOver(idx, [i \in 1..Len(changes) |->
                IF label \in Names(getAffectedSubGradesForChange(changes[i]))
                THEN delta[i] ELSE 0])
        cappedDelta == qualityDelta
        regrade(grade, d) ==
            IF d > 0 THEN improveGrade(grade, d)
            ELSE IF d < 0 THEN degradeGrade(grade, -d)
            ELSE grade
    IN  [score EXCEPT
            !.overallScore = clampScore(score.overallScore + cappedDelta),
            !.metrics = [i \in 1..Len(score.metrics) |->
                [score.metrics[i] EXCEPT
                    !.value = clampScore(@ + metricDelta(score.metrics[i].label))]],
            !.subGrades = [i \in 1..Len(score.subGrades) |->
                [score.subGrades[i] EXCEPT
                    !.grade = regrade(@, subGradeDelta(score.subGrades[i].label))]]]

evaluateManualEdits(score, diff) ==
    LET changes == diff.changes
        idx == [i \in 1..Len(changes) |-> i]
        delta == [i \in 1..Len(changes) |-> evaluateChangeQuality(changes[i])]
        qualityDelta == SumOver(idx, delta)
        metricDelta(label) ==
            SumOver(idx, [i \in 1..Len(changes) |->
                IF label \in Names(getAffectedMetricsForChange(changes[i]))
                THEN delta[i] ELSE 0])
        subGradeDelta(label) ==
            SumOver(idx, [i \in 1..Len(changes) |->
                IF label \in Names(getAffectedSubGradesForChange(changes[i]))
                THEN delta[i] ELSE 0])
        cappedDelta == Max(Pts(-5), Min(Pts(3), qualityDelta))
        regrade(grade, d) ==
            IF d > 0 THEN improveGrade(grade, d)
            ELSE IF d < 0 THEN degradeGrade(grade, -d)
            ELSE grade
    IN  [score EXCEPT
            !.overallScore = clampScore(score.overallScore + cappedDelta),
            !.metrics = [i \in 1..Len(score.metrics) |->
                [score.metrics[i] EXCEPT
                    !.value = clampScore(@ + metricDelta(score.metrics[i].label))]],
            !.subGrades = [i \in 1..Len(score.subGrades) |->
                [score.subGrades[i] EXCEPT
                    !.grade = regrade(@, subGradeDelta(score.subGrades[i].label))]]]

normalizeScores(score) ==
    [score EXCEPT
        !.overallScore = clampScore(@),
        !.metrics = [i \in 1..Len(score.metrics) |->
            [score.metrics[i] EXCEPT !.value = clampScore(@)]]]

getLatestScore(history) == history[Len(history)]

\* the score calculateProgressiveScore pushes onto a non-empty history
calculateProgressiveScore(history, impacts, diff, appliedSuggestionIds, now) ==
    LET baseScore == getLatestScore(history)
        newScore == [baseScore EXCEPT !.version = <<"v", Len(history) + 1>>,
                                      !.timestamp = now]
    IN  normalizeScores(
            IF diff.changeType \in {"suggestion_applied", "bulk_suggestion_applied"}
            THEN applySuggestionBoosts(newScore, appliedSuggestionIds, impacts)
            ELSE IF diff.changeType = "manual_edit"
            THEN evaluateManualEdits(newScore, diff)
            ELSE newScore)

(***************************************************************************)
(* SmartSuggestionGenerator: the impact of a suggestion.                   *)
(***************************************************************************)
\* an impact that looks at the category alone
generateSuggestionImpactByCategory(uuid, category, region) ==
    LET byCategory ==
            IF category \in {"Grammar", "Spelling"}
            THEN [m |-> <<"Clarity">>, g |-> <<>>, boost |-> 1]
            ELSE IF category \in {"Word choice", "Clarity"}
            THEN [m |-> <<"Clarity", "Quality">>, g |-> <<>>, boost |-> 2]
            ELSE IF category \in {"Tone & voice", "Idea strength"}
            THEN [m |-> <<"Delivery", "Quality">>, g |-> <<"Uniqueness">>, boost |-> 3]
            ELSE IF category = "Structure"
            THEN [m |-> <<"Delivery">>, g |-> <<"Structure">>, boost |-> 2]
            ELSE IF category = "Rephrase"
            THEN [m |-> <<"Quality">>, g |-> <<>>, boost |-> 2]
            ELSE [m |-> <<>>, g |-> <<>>, boost |-> 1]
    IN  [suggestionId |-> uuid, category |-> category, region |-> region,
         affectedMetrics |-> byCategory.m,
         affectedSubGrades |-> byCategory.g,
         scoreBoost |-> Pts(Min(3, byCategory.boost))]

generateSuggestionImpact(uuid, category, region) ==
    LET byCategory ==
            IF category \in {"Grammar", "Spelling"}
            THEN [m |-> <<"Clarity">>, g |-> <<>>, boost |-> 1]
            ELSE IF category \in {"Word choice", "Clarity"}
            THEN [m |-> <<"Clarity", "Quality">>, g |-> <<>>, boost |-> 2]
            ELSE IF category \in {"Tone & voice", "Idea strength"}
            THEN [m |-> <<"Delivery", "Quality">>, g |-> <<"Uniqueness">>, boost |-> 3]
            ELSE IF category = "Structure"
            THEN [m |-> <<"Delivery">>, g |-> <<"Structure">>, boost |-> 2]
            ELSE IF category = "Rephrase"
            THEN [m |-> <<"Quality">>, g |-> <<>>, boost |-> 2]
            ELSE [m |-> <<>>, g |-> <<>>, boost |-> 1]
    IN  [suggestionId |-> uuid, category |-> category, region |-> region,
         affectedMetrics |-> byCategory.m,
         affectedSubGrades |->
            byCategory.g \o (IF region = "beginning" THEN <<"Hook">> ELSE <<>>),
         scoreBoost |-> Pts(Min(3, byCategory.boost))]

(***************************************************************************)
(* Inputs of the scoring system: essays before and after an edit, the      *)
(* suggestions the generator produced, the scores of a first review.       *)
(***************************************************************************)
RECURSIVE JoinWords(_)
JoinWords(words) ==
    IF Len(words) = 1 THEN Head(words)
    ELSE Head(words) \o <<" ">> \o JoinWords(Tail(words))

wordWe == <<"w","e">>

wordIt == <<"i","t">>

wordNow == <<"n","o","w">>

wordA == <<"a">>

essayPlain == JoinWords(<<wordWe, simpleWords[1], wordIt>>)

SampleEdits ==
    { \* nothing changed
      [old |-> essayPlain, new |-> essayPlain],
      \* a weak word replaced by a strong one
      [old |-> essayPlain, new |-> JoinWords(<<wordWe, complexWords[1], wordIt>>)],
      \* a word replaced by another of no known kind
      [old |-> essayPlain, new |-> JoinWords(<<wordIt, simpleWords[1], wordIt>>)],
      \* one word appended
      [old |-> essayPlain, new |-> essayPlain \o <<" ">> \o wordNow],
      \* more than five words appended
      [old |-> essayPlain,
       new |-> JoinWords(<<essayPlain, wordA, wordA, wordA, wordA, wordA>>)],
      \* a filler word dropped from the end
      [old |-> JoinWords(<<essayPlain, wordVery>>), new |-> essayPlain],
      \* a plain word dropped from the end
      [old |-> JoinWords(<<essayPlain, wordNow>>), new |-> essayPlain],
      \* a replacement and a deletion in one edit
      [old |-> JoinWords(<<essayPlain, wordNow>>),
       new |-> JoinWords(<<wordWe, complexWords[1], wordIt>>)],
      \* four weak words replaced by four strong ones
      [old |-> JoinWords(simpleWords), new |-> JoinWords(complexWords)] }

\* the edits that come with applied suggestion ids
AppliedEdits ==
    { [old |-> essayPlain, new |-> essayPlain],
      [old |-> essayPlain, new |-> JoinWords(<<wordWe, complexWords[1], wordIt>>)] }

ScoreIds == <<"s1", "s2", "s3", "s4", "s5">>

\* the suggestions whose impact gets registered; s4 is never registered,
\* s3 and s5 have a boost of 2
SampleSuggestions ==
    { [uuid |-> "s1", category |-> "Grammar", region |-> "middle"],
      [uuid |-> "s2", category |-> "Tone & voice", region |-> "beginning"],
      [uuid |-> "s3", category |-> "Structure", region |-> "end"],
      [uuid |-> "s5", category |-> "Rephrase", region |-> "middle"] }

\* the lists of distinct applied ids, of at most MaxApplied ids
AppliedLists ==
    {SelectSeq(ScoreIds, LAMBDA id : id \in S) :
        S \in {T \in SUBSET Names(ScoreIds) : Cardinality(T) <= MaxApplied}}

\* the turns of a review: an edit, the applied ids sent with it and the diff
\* addVersion computes for them
SampleTurns ==
    {[appliedSuggestionIds |-> ids, diff |-> computeDiff(e.old, e.new, ids)] :
        e \in SampleEdits, ids \in {<<>>}}
    \cup
    {[appliedSuggestionIds |-> ids, diff |-> computeDiff(e.old, e.new, ids)] :
        e \in AppliedEdits, ids \in AppliedLists}

ReviewScores(overall, clarity, delivery, quality, structure, uniqueness, hook) ==
    [overallScore |-> Pts(overall),
     metrics |-> << [label |-> "Clarity", value |-> Pts(clarity)],
                    [label |-> "Delivery", value |-> Pts(delivery)],
                    [label |-> "Quality", value |-> Pts(quality)] >>,
     subGrades |-> << [label |-> "Structure", grade |-> structure],
                      [label |-> "Uniqueness", grade |-> uniqueness],
                      [label |-> "Hook", grade |-> hook] >>]

\* what generateInitialReview returns for an essay
InitialReviews ==
    { ReviewScores(0, 0, 1, 0, "F", "D-", "F"),
      ReviewScores(70, 80, 75, 70, "B+", "B", "B"),
      ReviewScores(99, 100, 99, 98, "A+", "A", "A-") }

baselineOf(review, versionId, now) ==
    [overallScore |-> review.overallScore, metrics |-> review.metrics,
     subGrades |-> review.subGrades, version |-> versionId, timestamp |-> now]

(***************************************************************************)
(* The review route (POST): the essayAssist row, the persisted form of the *)
(* two systems, the suggestion generator and the requests in flight.       *)
(***************************************************************************)
MaxRequests == 2

Requests == 1..MaxRequests

EssayId == "essay"

OtherEssayId == "essay2"

\* the ids of the rows of the essayAssist table
Essays == {EssayId, OtherEssayId}

\* the assistId of a request: missing, the essay's, or one of no row
AssistIds == {"", EssayId, "other"}

\* the content of a request; the empty text is a missing field
RouteContents == {<<>>, <<"a">>, <<"a", " ", "b">>}

RouteIdLists == {<<>>, <<"s1">>}

\* JSON.stringify of a Date and new Date() of the string
toJSON(date) == <<"iso", date>>

newDate(string) == string[2]

\* an EssayDiffSystem: its two maps, each in insertion order
NewDiffSystem == [versions |-> <<>>, appliedSuggestions |-> <<>>]

\* Map.set on the appliedSuggestions map: a known id keeps its place
recordAppliedSuggestion(system, suggestion) ==
    LET applied == system.appliedSuggestions
    IN  [system EXCEPT !.appliedSuggestions =
            IF \E i \in 1..Len(applied) : applied[i].id = suggestion.id
            THEN [i \in 1..Len(applied) |->
                    IF applied[i].id = suggestion.id THEN suggestion ELSE applied[i]]
            ELSE Append(applied, suggestion)]

diffSerialize(system) ==
    [versions |->
        [i \in 1..Len(system.versions) |->
            <<system.versions[i].id,
              [system.versions[i] EXCEPT !.timestamp = toJSON(@)]>>],
     appliedSuggestions |->
        [i \in 1..Len(system.appliedSuggestions) |->
            <<system.appliedSuggestions[i].id,
              [system.appliedSuggestions[i] EXCEPT !.appliedAt = toJSON(@)]>>]]

\* a deserialize that restores the versions alone
diffDeserializeVersionsOnly(data) ==
    [versions |->
        [i \in 1..Len(data.versions) |->
            [data.versions[i][2] EXCEPT !.timestamp = newDate(@)]],
     appliedSuggestions |-> <<>>]

diffDeserialize(data) ==
    [versions |->
        [i \in 1..Len(data.versions) |->
            [data.versions[i][2] EXCEPT !.timestamp = newDate(@)]],
     appliedSuggestions |->
        [i \in 1..Len(data.appliedSuggestions) |->
            [data.appliedSuggestions[i][2] EXCEPT !.appliedAt = newDate(@)]]]

NewScoringSystem ==
    [baselineScore |-> Null, scoreHistory |-> <<>>,
     suggestionImpacts |-> [id \in Names(ScoreIds) |-> Null]]

scoringSerialize(system) ==
    [baselineScore |->
        IF system.baselineScore = Null THEN Null
        ELSE [system.baselineScore EXCEPT !.timestamp = toJSON(@)],
     scoreHistory |->
        [i \in 1..Len(system.scoreHistory) |->
            [system.scoreHistory[i] EXCEPT !.timestamp = toJSON(@)]],
     suggestionImpacts |->
        {<<id, system.suggestionImpacts[id]>> :
            id \in {i \in Names(ScoreIds) : system.suggestionImpacts[i] # Null}}]

scoringDeserialize(data) ==
    [baselineScore |->
        IF data.baselineScore = Null THEN Null
        ELSE [data.baselineScore EXCEPT !.timestamp = newDate(@)],
     scoreHistory |->
        [i \in 1..Len(data.scoreHistory) |->
            [data.scoreHistory[i] EXCEPT !.timestamp = newDate(@)]],
     suggestionImpacts |->
        [id \in Names(ScoreIds) |->
            IF \E e \in data.suggestionImpacts : e[1] = id
            THEN (CHOOSE e \in data.suggestionImpacts : e[1] = id)[2]
            ELSE Null]]

\* a getLatestVersion that returns the first version of the history
getEarliestVersion(vs) ==
    IF vs = <<>> THEN Null
    ELSE vs[CHOOSE i \in 1..Len(vs) :
                \A j \in 1..Len(vs) :
                    \/ vs[i].timestamp < vs[j].timestamp
                    \/ (vs[i].timestamp = vs[j].timestamp /\ i <= j)]

\* the last of the versions sorted by timestamp, ties in insertion order
getLatestVersion(vs) ==
    IF vs = <<>> THEN Null
    ELSE vs[CHOOSE i \in 1..Len(vs) :
                \A j \in 1..Len(vs) :
                    \/ vs[j].timestamp < vs[i].timestamp
                    \/ (vs[j].timestamp = vs[i].timestamp /\ j <= i)]

getRegionForIndex(index, totalLength) ==
    IF totalLength = 0 THEN "end"
    ELSE IF 100 * index < 33 * totalLength THEN "beginning"
    ELSE IF 100 * index < 67 * totalLength THEN "middle"
    ELSE "end"

regionOrder(region) ==
    IF region = "beginning" THEN 0 ELSE IF region = "middle" THEN 1 ELSE 2

priorityOrder(priority) ==
    IF priority = "high" THEN 0 ELSE IF priority = "medium" THEN 1 ELSE 2

\* a comparator that stops at the position
compareSuggestionsByPosition(a, b) ==
    LET regionDiff == regionOrder(a.region) - regionOrder(b.region)
        positionDiff == a.startIndex - b.startIndex
    IN  IF regionDiff # 0 THEN regionDiff ELSE positionDiff

\* the comparator of prioritizeAndOrderSuggestions
compareSuggestions(a, b) ==
    LET regionDiff == regionOrder(a.region) - regionOrder(b.region)
        positionDiff == a.startIndex - b.startIndex
    IN  IF regionDiff # 0 THEN regionDiff
        ELSE IF positionDiff # 0 THEN positionDiff
        ELSE priorityOrder(a.priority) - priorityOrder(b.priority)

RECURSIVE InsertSuggestion(_, _)
InsertSuggestion(sorted, s) ==
    IF sorted = <<>> THEN <<s>>
    ELSE IF compareSuggestions(s, Head(sorted)) < 0 THEN <<s>> \o sorted
    ELSE <<Head(sorted)>> \o InsertSuggestion(Tail(sorted), s)

\* Array.sort with the comparator (a stable sort)
RECURSIVE prioritizeAndOrderSuggestions(_)
prioritizeAndOrderSuggestions(suggestions) ==
    IF suggestions = <<>> THEN <<>>
    ELSE InsertSuggestion(
            prioritizeAndOrderSuggestions(SubSeq(suggestions, 1, Len(suggestions) - 1)),
            suggestions[Len(suggestions)])

filterOutAppliedSuggestions(suggestions, appliedSuggestions) ==
    SelectSeq(suggestions, LAMBDA s : ~(s.uuid \in appliedSuggestions))

\* the suggestions in the reply of the language model, when it replies
AISuggestions ==
    << [uuid |-> "s2", category |-> "Structure", startIndex |-> 2, priority |-> "high"],
       [uuid |-> "s1", category |-> "Grammar", startIndex |-> 0, priority |-> "low"] >>

AIOutcomes == {"ok", "fail"}

\* the scores in the reply of the language model to generateInitialReview
RouteReviews ==
    { ReviewScores(70, 80, 75, 70, "B+", "B", "B"),
      ReviewScores(99, 100, 99, 98, "A+", "A", "A-") }

\* callAIForSuggestions: a failed call or an unparseable reply is caught and
\* gives no suggestions
callAIForSuggestions(content, outcome) ==
    IF outcome = "ok"
    THEN [i \in 1..Len(AISuggestions) |->
            LET s == AISuggestions[i]
                region == getRegionForIndex(s.startIndex, Len(content))
            IN  [uuid |-> s.uuid, category |-> s.category, startIndex |-> s.startIndex,
                 priority |-> s.priority, region |-> region,
                 impact |-> generateSuggestionImpact(s.uuid, s.category, region)]]
    ELSE <<>>

\* whether generateSuggestions calls the language model
callsAI(diff, isFirstReview) ==
    \/ isFirstReview
    \/ diff.changeType = "manual_edit" /\ Len(diff.changes) # 0
    \/ ~(diff.changeType \in {"no_change", "suggestion_applied",
                              "bulk_suggestion_applied", "manual_edit"})

generateFullReviewSuggestions(content, outcome) ==
    LET suggestions == callAIForSuggestions(content, outcome)
    IN  [suggestions |-> prioritizeAndOrderSuggestions(suggestions),
         focusedRegions |-> <<"beginning", "middle", "end">>,
         suggestionCount |-> Len(suggestions), generationType |-> "full"]

\* callAIForTargetedSuggestions: as callAIForSuggestions, with every priority
\* set to high
callAIForTargetedSuggestions(content, outcome) ==
    IF outcome = "ok"
    THEN [i \in 1..Len(AISuggestions) |->
            LET s == AISuggestions[i]
                region == getRegionForIndex(s.startIndex, Len(content))
            IN  [uuid |-> s.uuid, category |-> s.category, startIndex |-> s.startIndex,
                 priority |-> "high", region |-> region,
                 impact |-> generateSuggestionImpact(s.uuid, s.category, region)]]
    ELSE <<>>

\* the number of suggestions the prompt of a full review asks for;
\* floor is Math.floor(Math.random() * 30)
fullSuggestionCount(floor) == 20 + floor

\* maxSuggestions with the scaling by the number of changes left out
maxSuggestionsUnscaled(diff) == 10

\* the number of suggestions the prompt of a targeted review asks for
maxSuggestions(diff) == Min(10, Len(diff.changes) * 3)

generateTargetedSuggestions(content, diff, outcome) ==
    IF Len(diff.changes) = 0
    THEN [suggestions |-> <<>>, focusedRegions |-> <<>>, suggestionCount |-> 0,
          generationType |-> "targeted"]
    ELSE LET suggestions == callAIForTargetedSuggestions(content, outcome)
         IN  [suggestions |-> prioritizeAndOrderSuggestions(suggestions),
              focusedRegions |-> diff.affectedRegions,
              suggestionCount |-> Len(suggestions), generationType |-> "targeted"]

\* generateSuggestions that returns the previous suggestions unfiltered when
\* suggestions were applied
generateSuggestionsKeepApplied(content, diff, previousSuggestions, appliedSuggestionIds, isFirstReview, outcome) ==
    IF isFirstReview THEN generateFullReviewSuggestions(content, outcome)
    ELSE IF diff.changeType = "no_change"
    THEN [suggestions |-> <<>>, focusedRegions |-> <<>>, suggestionCount |-> 0,
          generationType |-> "score_update_only"]
    ELSE IF diff.changeType \in {"suggestion_applied", "bulk_suggestion_applied"}
    THEN [suggestions |-> previousSuggestions,
          focusedRegions |-> <<>>, suggestionCount |-> 0,
          generationType |-> "score_update_only"]
    ELSE IF diff.changeType = "manual_edit"
    THEN generateTargetedSuggestions(content, diff, outcome)
    ELSE generateFullReviewSuggestions(content, outcome)

generateSuggestions(content, diff, previousSuggestions, appliedSuggestionIds, isFirstReview, outcome) ==
    IF isFirstReview THEN generateFullReviewSuggestions(content, outcome)
    ELSE IF diff.changeType = "no_change"
    THEN [suggestions |-> <<>>, focusedRegions |-> <<>>, suggestionCount |-> 0,
          generationType |-> "score_update_only"]
    ELSE IF diff.changeType \in {"suggestion_applied", "bulk_suggestion_applied"}
    THEN [suggestions |-> filterOutAppliedSuggestions(previousSuggestions,
                                                      Names(appliedSuggestionIds)),
          focusedRegions |-> <<>>, suggestionCount |-> 0,
          generationType |-> "score_update_only"]
    ELSE IF diff.changeType = "manual_edit"
    THEN generateTargetedSuggestions(content, diff, outcome)
    ELSE generateFullReviewSuggestions(content, outcome)

RECURSIVE registerSuggestionImpacts(_, _)
registerSuggestionImpacts(impacts, suggestions) ==
    IF suggestions = <<>> THEN impacts
    ELSE registerSuggestionImpacts(
            [impacts EXCEPT ![Head(suggestions).uuid] = Head(suggestions).impact],
            Tail(suggestions))

\* the essayAssist row before any review
NewRow ==
    [currentContent |-> <<>>, history |-> <<>>, lastReviewData |-> Null,
     lastReviewAt |-> Null, diffSystemState |-> Null, scoringSystemState |-> Null,
     wordCount |-> 0, updatedAt |-> 0]

\* db.essayAssist.findFirst({where: {id}})
findFirst(table, id) == IF id \in DOMAIN table THEN table[id] ELSE Null

\* an update that forgets its where clause
updateEveryRow(table, id, data) ==
    [e \in DOMAIN table |->
        [f \in DOMAIN table[e] |-> IF f \in DOMAIN data THEN data[f] ELSE table[e][f]]]

\* db.essayAssist.update({where: {id}, data}): the fields of data replace
\* those of the row, the others keep the value the row has now
update(table, id, data) ==
    [table EXCEPT ![id] =
        [f \in DOMAIN @ |-> IF f \in DOMAIN data THEN data[f] ELSE @[f]]]

\* a request that has not arrived; `updated' records that the request ran
\* db.essayAssist.update, `concurrentWith' the requests in flight on arrival,
\* `score' the score the request put in the score history
IdleRequest ==
    [pc |-> "idle", kind |-> "none", assistId |-> "", body |-> Null, data |-> Null,
     content |-> <<>>, appliedSuggestionIds |-> <<>>,
     isFirstReview |-> FALSE, essayAssist |-> Null, diffSystem |-> NewDiffSystem,
     scoringSystem |-> NewScoringSystem, version |-> Null, diff |-> NoDiff,
     suggestionResult |-> Null, review |-> Null, score |-> Null,
     aiFailed |-> FALSE, updated |-> FALSE, concurrentWith |-> {}, status |-> 0]

RouteUnused ==
    /\ db = [e \in Essays |-> NewRow]
    /\ requests = [r \in Requests |-> IdleRequest]

NoTurn == [op |-> "none", threw |-> FALSE, changeType |-> Undefined,
           appliedSuggestionIds |-> <<>>, changes |-> <<>>,
           previous |-> Null, historyBefore |-> <<>>, impacts |-> Null]

ScoringUnused ==
    /\ baselineScore = Null
    /\ scoreHistory = <<>>
    /\ suggestionImpacts = [id \in Names(ScoreIds) |-> Null]
    /\ lastTurn = NoTurn

DiffUnused ==
    /\ versions = <<>>
    /\ lastDiff = NoDiff
    /\ lastCall = NoCall

(***************************************************************************)
(* SpecScore: one ProgressiveScoringSystem, at most MaxOps calls of        *)
(* setBaselineScore and calculateProgressiveScore, in any order.           *)
(***************************************************************************)
ScoreInit ==
    /\ baselineScore = Null
    /\ scoreHistory = <<>>
    /\ suggestionImpacts = [id \in Names(ScoreIds) |-> Null]
    /\ lastTurn = NoTurn
    /\ clock = 0
    /\ uuidsIssued = 0
    /\ DiffUnused
    /\ RouteUnused
    /\ ClientUnused

SetBaselineScore ==
    \E review \in InitialReviews :
        /\ clock < MaxOps
        /\ LET score == baselineOf(review, uuidsIssued + 1, clock)
           IN  /\ baselineScore' = score
               /\ scoreHistory' = <<score>>
        /\ lastTurn' = [NoTurn EXCEPT !.op = "setBaselineScore",
                                      !.historyBefore = scoreHistory]
        /\ uuidsIssued' = uuidsIssued + 1
        /\ clock' = clock + 1
        /\ UNCHANGED <<suggestionImpacts, diffVars, routeVars, clientVars>>

CalculateProgressiveScore ==
    \E turn \in SampleTurns :
        /\ clock < MaxOps
        /\ baselineScore # Null
        /\ LET diff == turn.diff
               ids == turn.appliedSuggestionIds
               newScore == calculateProgressiveScore(scoreHistory, suggestionImpacts,
                                                     diff, ids, clock)
           IN  /\ scoreHistory' = Append(scoreHistory, newScore)
               /\ lastTurn' = [op |-> "calculateProgressiveScore", threw |-> FALSE,
                               changeType |-> diff.changeType,
                               appliedSuggestionIds |-> ids,
                               changes |-> diff.changes,
                               previous |-> getLatestScore(scoreHistory),
                               historyBefore |-> scoreHistory,
                               impacts |-> suggestionImpacts]
        /\ clock' = clock + 1
        /\ UNCHANGED <<baselineScore, suggestionImpacts, uuidsIssued, diffVars, routeVars, clientVars>>

\* calculateProgressiveScore without a baseline that records a score all the same
CalculateWithoutBaselineRecords ==
    /\ clock < MaxOps
    /\ baselineScore = Null
    /\ scoreHistory' = Append(scoreHistory, CHOOSE review \in InitialReviews : TRUE)
    /\ lastTurn' = [NoTurn EXCEPT !.op = "calculateProgressiveScore", !.threw = TRUE,
                                  !.historyBefore = scoreHistory]
    /\ clock' = clock + 1
    /\ UNCHANGED <<baselineScore, suggestionImpacts, uuidsIssued, diffVars, routeVars, clientVars>>

\* 'Baseline score must be set first'
CalculateWithoutBaseline ==
    /\ clock < MaxOps
    /\ baselineScore = Null
    /\ lastTurn' = [NoTurn EXCEPT !.op = "calculateProgressiveScore", !.threw = TRUE,
                                  !.historyBefore = scoreHistory]
    /\ clock' = clock + 1
    /\ UNCHANGED <<baselineScore, scoreHistory, suggestionImpacts, uuidsIssued, diffVars, routeVars, clientVars>>

\* registerSuggestionImpact for every suggestion of a review
RegisterSuggestionImpacts ==
        /\ \E s \in SampleSuggestions : suggestionImpacts[s.uuid] = Null
        /\ suggestionImpacts' =
                [id \in Names(ScoreIds) |->
                    IF \E s \in SampleSuggestions : s.uuid = id
                    THEN LET s == CHOOSE s \in SampleSuggestions : s.uuid = id
                         IN  generateSuggestionImpact(s.uuid, s.category, s.region)
                    ELSE suggestionImpacts[id]]
        /\ UNCHANGED <<baselineScore, scoreHistory, lastTurn, clock, uuidsIssued, diffVars, routeVars, clientVars>>

\* getLatestScore: 'No scores available' on an empty history
GetLatestScore ==
    /\ lastTurn.op # "getLatestScore"
    /\ lastTurn' = [NoTurn EXCEPT
                        !.op = "getLatestScore",
                        !.threw = (Len(scoreHistory) = 0),
                        !.previous = IF Len(scoreHistory) = 0 THEN Null
                                     ELSE getLatestScore(scoreHistory),
                        !.historyBefore = scoreHistory]
    /\ UNCHANGED <<baselineScore, scoreHistory, suggestionImpacts, clock, uuidsIssued,
                   diffVars, routeVars, clientVars>>

ScoreNext ==
    \/ SetBaselineScore
    \/ CalculateProgressiveScore
    \/ CalculateWithoutBaseline
    \/ GetLatestScore
    \/ RegisterSuggestionImpacts

SpecScore == ScoreInit /\ [][ScoreNext]_vars

(***************************************************************************)
(* SpecDiff: one EssayDiffSystem; createInitialVersion on any text, then   *)
(* addVersion on any text with any applied-id list.                        *)
(***************************************************************************)
Texts == UNION {[1..n -> Alphabet] : n \in 0..MaxLen}

IdLists == {SubSeq(SuggestionIds, 1, n) : n \in 0..Min(MaxApplied, Len(SuggestionIds))}

DiffInit ==
    /\ versions = <<>>
    /\ lastDiff = NoDiff
    /\ lastCall = NoCall
    /\ clock = 0
    /\ uuidsIssued = 0
    /\ ScoringUnused
    /\ RouteUnused
    /\ ClientUnused

DiffCreateInitialVersion ==
    \E content \in Texts :
        /\ versions = <<>>
        /\ versions' = createInitialVersion(versions, uuidsIssued + 1, clock, content)
        /\ uuidsIssued' = uuidsIssued + 1
        /\ clock' = clock + 1
        /\ UNCHANGED <<lastDiff, lastCall>>
        /\ UNCHANGED <<scoreVars, routeVars, clientVars>>

DiffAddVersion ==
    \E content \in Texts, ids \in IdLists :
        /\ Len(versions) = 1
        /\ LET r == addVersion(versions, uuidsIssued + 1, clock, content, versions[1].id, ids)
           IN  /\ versions' = r.versions
               /\ lastDiff' = r.diff
               /\ lastCall' = [NoCall EXCEPT
                                !.oldContent = versions[1].content,
                                !.newContent = content,
                                !.appliedSuggestionIds = ids, !.found = TRUE,
                                !.op = "addVersion", !.storeBefore = versions]
        /\ uuidsIssued' = uuidsIssued + 1
        /\ clock' = clock + 1
        /\ UNCHANGED <<scoreVars, routeVars, clientVars>>

DiffNext == DiffCreateInitialVersion \/ DiffAddVersion

SpecDiff == DiffInit /\ [][DiffNext]_vars

(***************************************************************************)
(* SpecRoute: MaxRequests review requests for one essay, each a sequence   *)
(* of steps that end at an await of the handler, interleaved in any order. *)
(***************************************************************************)
RouteInit ==
    /\ db = [e \in Essays |-> NewRow]
    /\ requests = [r \in Requests |-> IdleRequest]
    /\ clock = 0
    /\ uuidsIssued = 0
    /\ DiffUnused
    /\ ScoringUnused
    /\ ClientUnused

\* the response of a request; its locals are gone
respond(request, status) ==
    [IdleRequest EXCEPT !.pc = "done", !.status = status,
                        !.kind = request.kind,
                        !.assistId = request.assistId,
                        !.body = request.body,
                        !.aiFailed = request.aiFailed,
                        !.updated = request.updated,
                        !.concurrentWith = request.concurrentWith,
                        !.version = request.version,
                        !.score = request.score,
                        !.review = IF status = 200 THEN request.review ELSE Null]

InFlight == {q \in Requests : ~(requests[q].pc \in {"idle", "done"})}

\* from request.json() to the call of generateSuggestions
ReviewStart(r, assistIds, contents, idLists, firstReviews) ==
    \E assistId \in assistIds, content \in contents,
       appliedSuggestionIds \in idLists, isFirstReview \in firstReviews :
        /\ requests[r].pc = "idle"
        /\ IF r = 1 THEN TRUE ELSE requests[r - 1].pc # "idle"
        /\ clock' = clock + 1
        /\ LET arrived == [requests[r] EXCEPT !.concurrentWith = InFlight,
                                              !.kind = "review",
                                              !.assistId = assistId]
           IN
           IF assistId = "" \/ content = <<>>
           THEN /\ requests' = [requests EXCEPT ![r] = respond(arrived, 400)]
                /\ UNCHANGED uuidsIssued
           ELSE IF findFirst(db, assistId) = Null
           THEN /\ requests' = [requests EXCEPT ![r] = respond(arrived, 404)]
                /\ UNCHANGED uuidsIssued
           ELSE
           LET essayAssist == findFirst(db, assistId)
               diffSystem == IF essayAssist.diffSystemState # Null
                             THEN diffDeserialize(essayAssist.diffSystemState)
                             ELSE NewDiffSystem
               scoringSystem == IF essayAssist.scoringSystemState # Null
                                THEN scoringDeserialize(essayAssist.scoringSystemState)
                                ELSE NewScoringSystem
               loaded == [arrived EXCEPT !.content = content,
                                         !.appliedSuggestionIds = appliedSuggestionIds,
                                         !.isFirstReview = isFirstReview,
                                         !.essayAssist = essayAssist,
                                         !.scoringSystem = scoringSystem]
           IN  IF isFirstReview
               THEN LET vs == createInitialVersion(diffSystem.versions, uuidsIssued + 1,
                                                   clock, content)
                    IN  /\ requests' = [requests EXCEPT ![r] =
                                [loaded EXCEPT !.pc = "generateSuggestions",
                                               !.diffSystem =
                                                    [diffSystem EXCEPT !.versions = vs],
                                               !.version = vs[Len(vs)],
                                               !.diff = [NoDiff EXCEPT !.changeType = "initial"]]]
                        /\ uuidsIssued' = uuidsIssued + 1
               ELSE LET latestVersion == getLatestVersion(diffSystem.versions)
                    IN  IF latestVersion = Null
                        THEN \* 'No previous version found'
                             /\ requests' = [requests EXCEPT ![r] = respond(arrived, 500)]
                             /\ UNCHANGED uuidsIssued
                        ELSE LET result == addVersion(diffSystem.versions,
                                                      uuidsIssued + 1, clock,
                                                      content, latestVersion.id,
                                                      appliedSuggestionIds)
                             IN  /\ requests' = [requests EXCEPT ![r] =
                                        [loaded EXCEPT !.pc = "generateSuggestions",
                                                       !.diffSystem =
                                                            [diffSystem EXCEPT
                                                                !.versions = result.versions],
                                                       !.version = result.version,
                                                       !.diff = result.diff]]
                                 /\ uuidsIssued' = uuidsIssued + 1
        /\ UNCHANGED <<db, diffVars, scoreVars, clientVars>>

RouteStart(r) == ReviewStart(r, AssistIds, RouteContents, RouteIdLists, BOOLEAN)

\* generateSuggestions returns; a later review goes on to its score and the
\* registration of the impacts, a first review to generateInitialReview
RouteGenerateSuggestions(r) ==
    LET req == requests[r]
    IN
    /\ req.pc = "generateSuggestions"
    /\ \E outcome \in (IF callsAI(req.diff, req.isFirstReview) THEN AIOutcomes ELSE {"ok"}) :
        LET previousSuggestions ==
                IF req.essayAssist.lastReviewData = Null THEN <<>>
                ELSE req.essayAssist.lastReviewData.suggestions
            suggestionResult ==
                generateSuggestions(req.content, req.diff, previousSuggestions,
                                    req.appliedSuggestionIds, req.isFirstReview, outcome)
            generated == [req EXCEPT !.suggestionResult = suggestionResult,
                                     !.aiFailed = (outcome = "fail")]
        IN  IF req.isFirstReview
            THEN requests' = [requests EXCEPT ![r] =
                                [generated EXCEPT !.pc = "generateInitialReview"]]
            ELSE IF req.scoringSystem.baselineScore = Null
            THEN \* 'Baseline score must be set first'
                 requests' = [requests EXCEPT ![r] = respond(generated, 500)]
            ELSE LET system == req.scoringSystem
                     newScore == calculateProgressiveScore(
                                    system.scoreHistory, system.suggestionImpacts,
                                    req.diff, req.appliedSuggestionIds, clock)
                     review == [overallScore |-> newScore.overallScore,
                                metrics |-> newScore.metrics,
                                subGrades |-> newScore.subGrades,
                                suggestions |-> suggestionResult.suggestions,
                                version |-> newScore.version,
                                generationType |-> suggestionResult.generationType,
                                focusedRegions |-> suggestionResult.focusedRegions]
                 IN  requests' = [requests EXCEPT ![r] =
                        [generated EXCEPT
                            !.pc = "update",
                            !.review = review,
                            !.score = newScore,
                            !.scoringSystem =
                                [system EXCEPT
                                    !.scoreHistory = Append(@, newScore),
                                    !.suggestionImpacts =
                                        registerSuggestionImpacts(@,
                                            suggestionResult.suggestions)]]]
    /\ UNCHANGED <<db, clock, uuidsIssued, diffVars, scoreVars, clientVars>>

\* generateInitialReview returns or throws; setBaselineScore and the
\* registration of the impacts
RouteGenerateInitialReview(r) ==
    LET req == requests[r]
    IN
    /\ req.pc = "generateInitialReview"
    /\ \E outcome \in AIOutcomes, reviewData \in RouteReviews :
        IF outcome = "fail"
        THEN requests' = [requests EXCEPT ![r] =
                            respond([req EXCEPT !.aiFailed = TRUE], 500)]
        ELSE LET suggestions == req.suggestionResult.suggestions
                 review == [overallScore |-> reviewData.overallScore,
                            metrics |-> reviewData.metrics,
                            subGrades |-> reviewData.subGrades,
                            suggestions |-> suggestions]
                 score == baselineOf(review, req.version.id, clock)
             IN  requests' = [requests EXCEPT ![r] =
                    [req EXCEPT
                        !.pc = "update",
                        !.review = review,
                        !.score = score,
                        !.scoringSystem =
                            [baselineScore |-> score,
                             scoreHistory |-> <<score>>,
                             suggestionImpacts |->
                                registerSuggestionImpacts(
                                    req.scoringSystem.suggestionImpacts, suggestions)]]]
    /\ UNCHANGED <<db, clock, uuidsIssued, diffVars, scoreVars, clientVars>>

\* a handler that saves and then fails
RouteUpdateThenThrow(r) ==
    LET req == requests[r]
    IN
    /\ req.pc = "update"
    /\ db' = update(db, req.assistId,
                     [currentContent |-> req.content,
                      lastReviewData |-> req.review,
                      lastReviewAt |-> clock,
                      updatedAt |-> clock,
                      diffSystemState |-> diffSerialize(req.diffSystem),
                      scoringSystemState |-> scoringSerialize(req.scoringSystem),
                      wordCount |-> req.version.wordCount])
    /\ requests' = [requests EXCEPT ![r] = respond(req, 500)]
    /\ UNCHANGED <<clock, uuidsIssued, diffVars, scoreVars, clientVars>>

\* db.essayAssist.update and the response
RouteUpdate(r) ==
    LET req == requests[r]
    IN
    /\ req.pc = "update"
    /\ db' = update(db, req.assistId,
                     [currentContent |-> req.content,
                      lastReviewData |-> req.review,
                      lastReviewAt |-> clock,
                      updatedAt |-> clock,
                      diffSystemState |-> diffSerialize(req.diffSystem),
                      scoringSystemState |-> scoringSerialize(req.scoringSystem),
                      wordCount |-> req.version.wordCount])
    /\ requests' = [requests EXCEPT ![r] = respond([req EXCEPT !.updated = TRUE], 200)]
    /\ UNCHANGED <<clock, uuidsIssued, diffVars, scoreVars, clientVars>>

RouteNext ==
    \E r \in Requests :
        \/ RouteStart(r)
        \/ RouteGenerateSuggestions(r)
        \/ RouteGenerateInitialReview(r)
        \/ RouteUpdate(r)

SpecRoute == RouteInit /\ [][RouteNext]_vars

(***************************************************************************)
(* suggestion-filtering: the suggestions shown to the user.  A suggestion  *)
(* without a from text has the empty text.                                 *)
(***************************************************************************)
MaxSuggestions == 3
MaxVersions == 3

\* `${fromText}|${toText}|${type}`
createSuggestionHash(suggestion) ==
    suggestion.from \o <<"|">> \o suggestion.to \o <<"|">> \o suggestion.type

\* shouldFilterSuggestion without the test of the from text against the content
shouldFilterSuggestionByStateOnly(suggestion, content, filteringState) ==
    LET contentHash == createSuggestionHash(suggestion)
    IN  \/ suggestion.uuid \in Names(filteringState.appliedSuggestions)
        \/ suggestion.uuid \in Names(filteringState.skippedSuggestions)
        \/ contentHash \in filteringState.appliedSuggestionContent
        \/ contentHash \in filteringState.skippedSuggestionContent

shouldFilterSuggestion(suggestion, content, filteringState) ==
    LET contentHash == createSuggestionHash(suggestion)
    IN  \/ suggestion.uuid \in Names(filteringState.appliedSuggestions)
        \/ suggestion.uuid \in Names(filteringState.skippedSuggestions)
        \/ contentHash \in filteringState.appliedSuggestionContent
        \/ contentHash \in filteringState.skippedSuggestionContent
        \/ (suggestion.from # <<>> /\ ~Includes(content, suggestion.from))

filterSuggestions(suggestions, content, filteringState) ==
    IF content = <<>> THEN <<>>
    ELSE SelectSeq(suggestions,
                   LAMBDA s : ~shouldFilterSuggestion(s, content, filteringState))

\* the suggestions of a review: s4 has the texts of s1, s3 has no from text
FilterPool ==
    { [uuid |-> "s1", from |-> <<"a">>, to |-> <<"b">>, type |-> <<"g">>],
      [uuid |-> "s2", from |-> <<"b">>, to |-> <<"a">>, type |-> <<"g">>],
      [uuid |-> "s3", from |-> <<>>, to |-> <<"a">>, type |-> <<"g">>],
      [uuid |-> "s4", from |-> <<"a">>, to |-> <<"b">>, type |-> <<"g">>] }

FilterLists == UNION {[1..n -> FilterPool] : n \in 0..MaxSuggestions}

FilterContents == {<<>>, <<" ">>, <<"a">>, <<"b", " ", "a">>}

FilterStates ==
    [appliedSuggestions : {<<>>, <<"s1">>},
     skippedSuggestions : {<<>>, <<"s2">>},
     appliedSuggestionContent :
        {{}, {createSuggestionHash(CHOOSE s \in FilterPool : s.uuid = "s1")}},
     skippedSuggestionContent :
        {{}, {createSuggestionHash(CHOOSE s \in FilterPool : s.uuid = "s3")}}]

(***************************************************************************)
(* SpecFilter: one call of filterSuggestions on any list of at most        *)
(* MaxSuggestions suggestions, any content and any filtering state.        *)
(***************************************************************************)
FilterInit ==
    /\ filterCall \in [suggestions : FilterLists, content : FilterContents,
                       filteringState : FilterStates, returned : {FALSE},
                       result : {<<>>}]
    /\ genCall = Null
    /\ reviewLogic = Null
    /\ pureCall = Null
    /\ editor = Null
    /\ clock = 0
    /\ uuidsIssued = 0
    /\ DiffUnused
    /\ ScoringUnused
    /\ RouteUnused

FilterSuggestions ==
    /\ ~filterCall.returned
    /\ filterCall' = [filterCall EXCEPT
                        !.returned = TRUE,
                        !.result = filterSuggestions(filterCall.suggestions,
                                                     filterCall.content,
                                                     filterCall.filteringState)]
    /\ UNCHANGED <<genCall, reviewLogic, pureCall, editor, clock, uuidsIssued, diffVars, scoreVars, routeVars>>

FilterNext == FilterSuggestions

SpecFilter == FilterInit /\ [][FilterNext]_vars

(***************************************************************************)
(* SpecGenerate: one call of generateSuggestions on a new                  *)
(* SmartSuggestionGenerator, as the review route makes it, for any content,*)
(* diff, previous suggestions, applied ids and reply of the language model.*)
(***************************************************************************)
GenContents == {<<"a", " ", "b">>, essayPlain}

InitialDiff == [NoDiff EXCEPT !.changeType = "initial"]

\* the diff and applied ids of a request: those of a first review, and those
\* addVersion computes in a later one
GenTurns == SampleTurns \cup {[appliedSuggestionIds |-> <<>>, diff |-> InitialDiff]}

\* the suggestions of the last review
GenPrevious ==
    {<<>>} \cup {prioritizeAndOrderSuggestions(callAIForSuggestions(c, "ok")) :
                    c \in GenContents}

\* Math.floor(Math.random() * 30): the least and the greatest value
RandomFloors == {0, 29}

GenInit ==
    /\ genCall \in
        {[content |-> c, diff |-> t.diff, previousSuggestions |-> p,
          appliedSuggestionIds |-> t.appliedSuggestionIds, isFirstReview |-> f,
          outcome |-> o, floor |-> x,
          appliedSuggestions |-> {}, returned |-> FALSE, calledAI |-> FALSE,
          asked |-> 0, result |-> Null] :
            c \in GenContents, t \in GenTurns, p \in GenPrevious, f \in BOOLEAN,
            o \in AIOutcomes, x \in RandomFloors}
    /\ filterCall = Null
    /\ reviewLogic = Null
    /\ pureCall = Null
    /\ editor = Null
    /\ clock = 0
    /\ uuidsIssued = 0
    /\ DiffUnused
    /\ ScoringUnused
    /\ RouteUnused

\* `asked' is the number of suggestions named in the prompt, 0 without a call
GenerateSuggestions ==
    /\ ~genCall.returned
    /\ LET call == genCall
           called == callsAI(call.diff, call.isFirstReview)
           targeted == ~call.isFirstReview /\ call.diff.changeType = "manual_edit"
       IN  genCall' = [call EXCEPT
                !.returned = TRUE,
                !.appliedSuggestions = @ \cup Names(call.appliedSuggestionIds),
                !.calledAI = called,
                !.asked = IF ~called THEN 0
                          ELSE IF targeted THEN maxSuggestions(call.diff)
                          ELSE fullSuggestionCount(call.floor),
                !.result = generateSuggestions(call.content, call.diff,
                                call.previousSuggestions, call.appliedSuggestionIds,
                                call.isFirstReview, call.outcome)]
    /\ UNCHANGED <<filterCall, reviewLogic, pureCall, editor, clock, uuidsIssued, diffVars, scoreVars, routeVars>>

GenNext == GenerateSuggestions

SpecGenerate == GenInit /\ [][GenNext]_vars

(***************************************************************************)
(* useReviewLogic: the review state of the editor for one essay.  The      *)
(* highlights are left out: no other state of the hook reads them.         *)
(***************************************************************************)
MinReviewLength == 50

\* String.toLowerCase
toLowerCase(text) ==
    [i \in 1..Len(text) |->
        IF text[i] = "A" THEN "a" ELSE IF text[i] = "B" THEN "b" ELSE text[i]]

\* curly quotes to straight ones, the ellipsis to three dots
normalizeQuotes(text) ==
    Concat([i \in 1..Len(text) |->
        IF text[i] \in {"lsquo", "rsquo"} THEN <<"'">>
        ELSE IF text[i] \in {"ldquo", "rdquo"} THEN <<"\"">>
        ELSE IF text[i] = "hellip" THEN <<".", ".", ".">>
        ELSE <<text[i]>>])

\* String.indexOf: the 0-based offset of the first occurrence, or -1
indexOf0(text, word) ==
    IF Includes(text, word)
    THEN CHOOSE i \in 0..(Len(text) - Len(word)) :
            /\ SubSeq(text, i + 1, i + Len(word)) = word
            /\ \A j \in 0..(i - 1) : SubSeq(text, j + 1, j + Len(word)) # word
    ELSE -1

\* the sync effect: the applied and skipped sets the effect computes from the
\* content and the suggestions of the review
syncSuggestionStates(essayContent, reviewData, appliedSuggestions, skippedSuggestions) ==
    IF reviewData = Null
    THEN [appliedSuggestions |-> appliedSuggestions,
          skippedSuggestions |-> skippedSuggestions]
    ELSE
    LET currentContent == normalizeQuotes(toLowerCase(essayContent))
        suggestions == reviewData.suggestions
        complete(s) == s.originalText # <<>> /\ s.replacement # <<>>
        hasFromText(s) ==
            Includes(currentContent, normalizeQuotes(toLowerCase(s.originalText)))
        hasToText(s) ==
            Includes(currentContent, normalizeQuotes(toLowerCase(s.replacement)))
        newAppliedSuggestions ==
            {suggestions[i].uuid : i \in {j \in 1..Len(suggestions) :
                /\ complete(suggestions[j])
                /\ hasToText(suggestions[j])
                /\ ~hasFromText(suggestions[j])}}
        newSkippedSuggestions ==
            {suggestions[i].uuid : i \in {j \in 1..Len(suggestions) :
                /\ complete(suggestions[j])
                /\ ~(hasToText(suggestions[j]) /\ ~hasFromText(suggestions[j]))
                /\ suggestions[j].uuid \in skippedSuggestions
                /\ ~hasToText(suggestions[j])
                /\ ~hasFromText(suggestions[j])}}
        appliedChanged ==
            \/ Cardinality(newAppliedSuggestions) # Cardinality(appliedSuggestions)
            \/ \E id \in newAppliedSuggestions : ~(id \in appliedSuggestions)
        skippedChanged ==
            \/ Cardinality(newSkippedSuggestions) # Cardinality(skippedSuggestions)
            \/ \E id \in newSkippedSuggestions : ~(id \in skippedSuggestions)
    IN  [appliedSuggestions |->
            IF appliedChanged THEN newAppliedSuggestions ELSE appliedSuggestions,
         skippedSuggestions |->
            IF skippedChanged THEN newSkippedSuggestions ELSE skippedSuggestions]

\* the state after a render: the effect has run when the content or the
\* suggestions changed, and the uuids seen in the two sets are remembered
afterRender(state, depsChanged) ==
    LET synced == IF depsChanged
                  THEN syncSuggestionStates(state.essayContent, state.reviewData,
                                            state.appliedSuggestions,
                                            state.skippedSuggestions)
                  ELSE [appliedSuggestions |-> state.appliedSuggestions,
                        skippedSuggestions |-> state.skippedSuggestions]
    IN  [state EXCEPT
            !.appliedSuggestions = synced.appliedSuggestions,
            !.skippedSuggestions = synced.skippedSuggestions,
            !.everApplied = @ \cup state.appliedSuggestions \cup synced.appliedSuggestions,
            !.everSkipped = @ \cup state.skippedSuggestions \cup synced.skippedSuggestions]

Padding == [i \in 1..MinReviewLength |-> "x"]

\* the essay as the user types it: long enough for a review, except the last
HookContents ==
    { Padding \o <<" ", "a", " ", "c">>,
      Padding \o <<" ", "a", " ", "a", " ", "c">>,
      <<" ", "a", " ", "c", " ">> }

HookSuggestion(uuid, originalText, replacement) ==
    [uuid |-> uuid, originalText |-> originalText, replacement |-> replacement]

HookSuggestions ==
    << HookSuggestion("s1", <<"a">>, <<"b">>),
       HookSuggestion("s2", <<"c">>, <<"d">>) >>

\* the answers of the review route: an error, a full review, a score update
\* with the suggestions left, a score update without suggestions, a targeted
\* review
HookResponses ==
    { [ok |-> FALSE, suggestions |-> <<>>, generationType |-> "none"],
      [ok |-> TRUE, suggestions |-> SubSeq(HookSuggestions, 1, 2),
       generationType |-> "full"],
      [ok |-> TRUE, suggestions |-> SubSeq(HookSuggestions, 2, 2),
       generationType |-> "score_update_only"],
      [ok |-> TRUE, suggestions |-> <<>>, generationType |-> "score_update_only"],
      [ok |-> TRUE, suggestions |-> SubSeq(HookSuggestions, 1, 1),
       generationType |-> "targeted"] }

\* the lastReviewData the page passes to the hook
InitialReviewData ==
    {Null, [suggestions |-> SubSeq(HookSuggestions, 1, 2), generationType |-> "full"]}

(***************************************************************************)
(* SpecHook: the user edits the essay, applies and skips suggestions and   *)
(* asks for reviews; the answers of the review route arrive.               *)
(***************************************************************************)
HookInit ==
    /\ reviewLogic \in
        {afterRender([essayContent |-> c, reviewData |-> d,
                      isReviewLoading |-> FALSE,
                      lastReviewContent |-> IF d = Null THEN <<>> ELSE c,
                      appliedSuggestions |-> {}, skippedSuggestions |-> {},
                      isFirstReview |-> (d = Null), request |-> Null,
                      everApplied |-> {}, everSkipped |-> {}], TRUE) :
            c \in HookContents, d \in InitialReviewData}
    /\ filterCall = Null
    /\ genCall = Null
    /\ pureCall = Null
    /\ editor = Null
    /\ clock = 0
    /\ uuidsIssued = 0
    /\ DiffUnused
    /\ ScoringUnused
    /\ RouteUnused

HookUnchanged ==
    UNCHANGED <<filterCall, genCall, pureCall, editor, clock, uuidsIssued, diffVars, scoreVars, routeVars>>

\* the user types: the page passes the new essayContent to the hook
EditContent ==
    \E content \in HookContents :
        /\ content # reviewLogic.essayContent
        /\ reviewLogic' = afterRender([reviewLogic EXCEPT !.essayContent = content], TRUE)
        /\ HookUnchanged

\* handleApplySuggestion on a suggestion of the review
HandleApplySuggestion ==
    /\ reviewLogic.reviewData # Null
    /\ \E i \in 1..Len(reviewLogic.reviewData.suggestions) :
        LET suggestion == reviewLogic.reviewData.suggestions[i]
            essayContent == reviewLogic.essayContent
            originalText == suggestion.originalText
            replacementText == suggestion.replacement
            normalizedContent == normalizeQuotes(toLowerCase(essayContent))
            normalizedFrom == normalizeQuotes(toLowerCase(originalText))
            startIndex == indexOf0(normalizedContent, normalizedFrom)
            endIndex == startIndex + Len(originalText)
            newContent == Slice(essayContent, 0, startIndex) \o replacementText
                            \o Slice(essayContent, endIndex, Len(essayContent))
        IN  /\ originalText # <<>> /\ replacementText # <<>>
            /\ startIndex # -1
            /\ reviewLogic' =
                afterRender([reviewLogic EXCEPT
                                !.essayContent = newContent,
                                !.appliedSuggestions = @ \cup {suggestion.uuid}],
                            newContent # essayContent)
    /\ HookUnchanged

\* handleSkipSuggestion on a suggestion of the review
HandleSkipSuggestion ==
    /\ reviewLogic.reviewData # Null
    /\ \E i \in 1..Len(reviewLogic.reviewData.suggestions) :
        reviewLogic' =
            afterRender([reviewLogic EXCEPT
                            !.skippedSuggestions =
                                @ \cup {reviewLogic.reviewData.suggestions[i].uuid}],
                        FALSE)
    /\ HookUnchanged

\* generateReview up to the fetch of the review route; the editor offers no
\* refresh while a review is loading
GenerateReview ==
    /\ ~reviewLogic.isReviewLoading
    /\ Len(Trim(reviewLogic.essayContent)) >= MinReviewLength
    /\ reviewLogic' =
        [reviewLogic EXCEPT
            !.isReviewLoading = TRUE,
            !.request = [content |-> reviewLogic.essayContent,
                         appliedSuggestionIds |-> reviewLogic.appliedSuggestions,
                         isFirstReview |-> reviewLogic.isFirstReview]]
    /\ HookUnchanged

\* generateReview on a content too short for a review: nothing is sent
GenerateReviewTooShort ==
    /\ ~reviewLogic.isReviewLoading
    /\ Len(Trim(reviewLogic.essayContent)) < MinReviewLength
    /\ UNCHANGED reviewLogic
    /\ HookUnchanged

\* generateReview from the answer of the review route on
ReviewResponse ==
    /\ reviewLogic.isReviewLoading
    /\ \E response \in HookResponses :
        IF ~response.ok
        THEN reviewLogic' = [reviewLogic EXCEPT !.isReviewLoading = FALSE,
                                                !.request = Null]
        ELSE LET reset == /\ Len(response.suggestions) > 0
                          /\ response.generationType # "score_update_only"
             IN  reviewLogic' =
                    afterRender(
                        [reviewLogic EXCEPT
                            !.reviewData = [suggestions |-> response.suggestions,
                                            generationType |-> response.generationType],
                            !.lastReviewContent = reviewLogic.request.content,
                            !.isFirstReview = FALSE,
                            !.appliedSuggestions = IF reset THEN {} ELSE @,
                            !.skippedSuggestions = IF reset THEN {} ELSE @,
                            !.isReviewLoading = FALSE,
                            !.request = Null],
                        TRUE)
    /\ HookUnchanged

HookNext ==
    \/ EditContent
    \/ HandleApplySuggestion
    \/ HandleSkipSuggestion
    \/ GenerateReview
    \/ GenerateReviewTooShort
    \/ ReviewResponse

SpecHook == HookInit /\ [][HookNext]_vars

(***************************************************************************)
(* SpecStore: one EssayDiffSystem, at most MaxVersions versions;           *)
(* createInitialVersion and addVersion in any order, addVersion on any     *)
(* version of the store or on an id the store does not know.               *)
(***************************************************************************)
StoreContents == {<<>>, <<"a">>, <<"a", " ", "b">>}

StoreIdLists == {<<>>, SubSeq(SuggestionIds, 1, 1), SubSeq(SuggestionIds, 1, 4)}

\* an id no uuidv4() of this store returned
UnknownVersionId == -1

PreviousVersionIds == {versions[i].id : i \in 1..Len(versions)} \cup {UnknownVersionId}

StoreInit ==
    /\ versions = <<>>
    /\ lastDiff = NoDiff
    /\ lastCall = NoCall
    /\ clock = 0
    /\ uuidsIssued = 0
    /\ ScoringUnused
    /\ RouteUnused
    /\ ClientUnused

StoreCreateInitialVersion ==
    \E content \in StoreContents :
        /\ Len(versions) < MaxVersions
        /\ versions' = createInitialVersion(versions, uuidsIssued + 1, clock, content)
        /\ lastCall' = [NoCall EXCEPT !.op = "createInitialVersion",
                                      !.newContent = content,
                                      !.storeBefore = versions]
        /\ uuidsIssued' = uuidsIssued + 1
        /\ clock' = clock + 1
        /\ UNCHANGED lastDiff
        /\ UNCHANGED <<scoreVars, routeVars, clientVars>>

StoreAddVersion ==
    \E content \in StoreContents, ids \in StoreIdLists,
       previousVersionId \in PreviousVersionIds :
        /\ Len(versions) < MaxVersions
        /\ IF getVersion(versions, previousVersionId) = Null
           THEN \* 'Previous version not found'
                /\ lastCall' = [NoCall EXCEPT !.op = "addVersion",
                                              !.newContent = content,
                                              !.appliedSuggestionIds = ids,
                                              !.threw = TRUE,
                                              !.storeBefore = versions]
                /\ UNCHANGED <<versions, lastDiff, uuidsIssued, clock>>
           ELSE LET r == addVersion(versions, uuidsIssued + 1, clock, content,
                                    previousVersionId, ids)
                IN  /\ versions' = r.versions
                    /\ lastDiff' = r.diff
                    /\ lastCall' = [NoCall EXCEPT
                                        !.oldContent =
                                            getVersion(versions, previousVersionId).content,
                                        !.newContent = content,
                                        !.appliedSuggestionIds = ids,
                                        !.found = TRUE,
                                        !.op = "addVersion",
                                        !.storeBefore = versions]
                    /\ uuidsIssued' = uuidsIssued + 1
                    /\ clock' = clock + 1
        /\ UNCHANGED <<scoreVars, routeVars, clientVars>>

StoreNext == StoreCreateInitialVersion \/ StoreAddVersion

SpecStore == StoreInit /\ [][StoreNext]_vars

(***************************************************************************)
(* SpecImpact: generateSuggestionImpact on a suggestion of any category    *)
(* and region.                                                             *)
(***************************************************************************)
\* Suggestion.category, and a category the language model made up
Categories ==
    {"Grammar", "Spelling", "Word choice", "Tone & voice", "Idea strength",
     "Rephrase", "Structure", "Clarity", "Other"}

Regions == {"beginning", "middle", "end"}

ImpactInit ==
    /\ pureCall \in [op : {"generateSuggestionImpact"}, uuid : Names(ScoreIds),
                     category : Categories, region : Regions,
                     returned : {FALSE}, result : {Null}]
    /\ filterCall = Null
    /\ genCall = Null
    /\ reviewLogic = Null
    /\ editor = Null
    /\ clock = 0
    /\ uuidsIssued = 0
    /\ DiffUnused
    /\ ScoringUnused
    /\ RouteUnused

GenerateSuggestionImpact ==
    /\ pureCall.op = "generateSuggestionImpact"
    /\ ~pureCall.returned
    /\ pureCall' = [pureCall EXCEPT
                        !.returned = TRUE,
                        !.result = generateSuggestionImpact(pureCall.uuid,
                                                            pureCall.category,
                                                            pureCall.region)]
    /\ UNCHANGED <<filterCall, genCall, reviewLogic, editor, clock, uuidsIssued,
                   diffVars, scoreVars, routeVars>>

ImpactNext == GenerateSuggestionImpact

SpecImpact == ImpactInit /\ [][ImpactNext]_vars

(***************************************************************************)
(* SpecOrder: prioritizeAndOrderSuggestions on the suggestions of a reply, *)
(* in any order; the region of a suggestion is the one callAIForSuggestions *)
(* computed from its startIndex.                                           *)
(***************************************************************************)
OrderContentLength == 10

OrderSuggestion(uuid, startIndex, priority) ==
    [uuid |-> uuid, startIndex |-> startIndex, priority |-> priority,
     region |-> getRegionForIndex(startIndex, OrderContentLength)]

OrderPool ==
    { OrderSuggestion("s1", 0, "low"),
      OrderSuggestion("s2", 0, "high"),
      OrderSuggestion("s3", 4, "medium"),
      OrderSuggestion("s4", 8, "high"),
      OrderSuggestion("s5", 1, "medium") }

OrderLists ==
    {l \in UNION {[1..n -> OrderPool] : n \in 0..MaxSuggestions} :
        \A i, j \in 1..Len(l) : l[i] = l[j] => i = j}

OrderInit ==
    /\ pureCall \in [op : {"prioritizeAndOrderSuggestions"}, suggestions : OrderLists,
                     returned : {FALSE}, result : {<<>>}]
    /\ filterCall = Null
    /\ genCall = Null
    /\ reviewLogic = Null
    /\ editor = Null
    /\ clock = 0
    /\ uuidsIssued = 0
    /\ DiffUnused
    /\ ScoringUnused
    /\ RouteUnused

PrioritizeAndOrderSuggestions ==
    /\ pureCall.op = "prioritizeAndOrderSuggestions"
    /\ ~pureCall.returned
    /\ pureCall' = [pureCall EXCEPT
                        !.returned = TRUE,
                        !.result = prioritizeAndOrderSuggestions(pureCall.suggestions)]
    /\ UNCHANGED <<filterCall, genCall, reviewLogic, editor, clock, uuidsIssued,
                   diffVars, scoreVars, routeVars>>

OrderNext == PrioritizeAndOrderSuggestions

SpecOrder == OrderInit /\ [][OrderNext]_vars

(***************************************************************************)
(* The apply-suggestion route (POST) and the essay route (PUT), on the     *)
(* same table.                                                             *)
(***************************************************************************)
\* the body of an apply-suggestion request; an empty field is a missing one
ApplyBodies ==
    { [suggestionUuid |-> "s1", appliedText |-> <<"b">>, originalText |-> <<"a">>,
       startIndex |-> 0, endIndex |-> 1, category |-> "Grammar"],
      [suggestionUuid |-> "", appliedText |-> <<"b">>, originalText |-> <<"a">>,
       startIndex |-> 0, endIndex |-> 1, category |-> "Grammar"] }

\* the body of a PUT: the autosave of the editor, and the review the review
\* hook saves after a review
PutBodies ==
    { [currentContent |-> <<"b", " ", "a">>, history |-> << <<"b", " ", "a">> >>],
      [lastReviewData |-> [suggestions |-> <<>>]] }

\* from request.json() to the call of db.essayAssist.update
ApplyStart(r) ==
    \E assistId \in Essays, body \in ApplyBodies :
        /\ requests[r].pc = "idle"
        /\ IF r = 1 THEN TRUE ELSE requests[r - 1].pc # "idle"
        /\ clock' = clock + 1
        /\ LET arrived == [requests[r] EXCEPT !.concurrentWith = InFlight,
                                              !.kind = "applySuggestion",
                                              !.assistId = assistId,
                                              !.body = body]
               essayAssist == findFirst(db, assistId)
           IN
           IF body.suggestionUuid = "" \/ body.appliedText = <<>>
           THEN requests' = [requests EXCEPT ![r] = respond(arrived, 400)]
           ELSE IF essayAssist = Null
           THEN requests' = [requests EXCEPT ![r] = respond(arrived, 404)]
           ELSE
           LET diffSystem == IF essayAssist.diffSystemState # Null
                             THEN diffDeserialize(essayAssist.diffSystemState)
                             ELSE NewDiffSystem
               appliedSuggestion ==
                    [id |-> body.suggestionUuid,
                     originalText |-> body.originalText,
                     replacementText |-> body.appliedText,
                     startIndex |-> body.startIndex,
                     endIndex |-> body.endIndex,
                     appliedAt |-> clock,
                     category |-> body.category]
           IN  requests' = [requests EXCEPT ![r] =
                    [arrived EXCEPT
                        !.pc = "applyUpdate",
                        !.essayAssist = essayAssist,
                        !.diffSystem = recordAppliedSuggestion(diffSystem,
                                                               appliedSuggestion),
                        !.data = [diffSystemState |->
                                    diffSerialize(recordAppliedSuggestion(
                                        diffSystem, appliedSuggestion)),
                                  updatedAt |-> clock]]]
        /\ UNCHANGED <<db, uuidsIssued, diffVars, scoreVars, clientVars>>

\* db.essayAssist.update of the apply-suggestion route and the response
ApplyUpdate(r) ==
    LET req == requests[r]
    IN
    /\ req.pc = "applyUpdate"
    /\ db' = update(db, req.assistId, req.data)
    /\ requests' = [requests EXCEPT ![r] =
                        [respond([req EXCEPT !.updated = TRUE], 200)
                            EXCEPT !.data = req.data]]
    /\ UNCHANGED <<clock, uuidsIssued, diffVars, scoreVars, clientVars>>

\* an updateData that always carries the review of the body, null without one
updateDataWithReview(body, existingEssay, now) ==
    LET wordCount == IF "currentContent" \in DOMAIN body
                     THEN getWordCount(body.currentContent)
                     ELSE existingEssay.wordCount
        given == [f \in DOMAIN body \cap {"currentContent", "history"} |-> body[f]]
        review == [lastReviewData |-> IF "lastReviewData" \in DOMAIN body
                                      THEN body.lastReviewData ELSE Null,
                   updatedAt |-> now]
        counted == IF wordCount # existingEssay.wordCount
                   THEN [wordCount |-> wordCount]
                   ELSE <<>>
    IN  given @@ review @@ counted

\* the updateData of the PUT: the fields the body defines, the time, and the
\* word count when it differs from the stored one
updateData(body, existingEssay, now) ==
    LET wordCount == IF "currentContent" \in DOMAIN body
                     THEN getWordCount(body.currentContent)
                     ELSE existingEssay.wordCount
        given == [f \in DOMAIN body \cap
                        {"currentContent", "history", "lastReviewData"} |->
                    body[f]]
        stamps == IF "lastReviewData" \in DOMAIN body
                  THEN [updatedAt |-> now, lastReviewAt |-> now]
                  ELSE [updatedAt |-> now]
        counted == IF wordCount # existingEssay.wordCount
                   THEN [wordCount |-> wordCount]
                   ELSE <<>>
    IN  given @@ stamps @@ counted

\* PUT from auth() to the call of db.essayAssist.update
PutStart(r) ==
    \E assistId \in Essays, body \in PutBodies, session \in BOOLEAN :
        /\ requests[r].pc = "idle"
        /\ IF r = 1 THEN TRUE ELSE requests[r - 1].pc # "idle"
        /\ clock' = clock + 1
        /\ LET arrived == [requests[r] EXCEPT !.concurrentWith = InFlight,
                                              !.kind = "put",
                                              !.assistId = assistId,
                                              !.body = body]
               existingEssay == findFirst(db, assistId)
           IN
           IF ~session
           THEN requests' = [requests EXCEPT ![r] = respond(arrived, 401)]
           ELSE IF existingEssay = Null
           THEN requests' = [requests EXCEPT ![r] = respond(arrived, 404)]
           ELSE
           requests' = [requests EXCEPT ![r] =
                [arrived EXCEPT !.pc = "putUpdate",
                                !.essayAssist = existingEssay,
                                !.data = updateData(body, existingEssay, clock)]]
        /\ UNCHANGED <<db, uuidsIssued, diffVars, scoreVars, clientVars>>

\* db.essayAssist.update of the PUT and the response
PutUpdate(r) ==
    LET req == requests[r]
    IN
    /\ req.pc = "putUpdate"
    /\ db' = update(db, req.assistId, req.data)
    /\ requests' = [requests EXCEPT ![r] =
                        [respond([req EXCEPT !.updated = TRUE], 200)
                            EXCEPT !.data = req.data]]
    /\ UNCHANGED <<clock, uuidsIssued, diffVars, scoreVars, clientVars>>

(***************************************************************************)
(* SpecEssays: MaxRequests requests on the two essays of the table, each a *)
(* review, an apply-suggestion or a PUT, interleaved in any order.         *)
(***************************************************************************)
EssaysContents == {<<"a", " ", "b">>}

EssaysIdLists == {<<>>}

EssaysReviewStart(r) ==
    ReviewStart(r, Essays, EssaysContents, EssaysIdLists, BOOLEAN)

EssaysNext ==
    \E r \in Requests :
        \/ EssaysReviewStart(r)
        \/ RouteGenerateSuggestions(r)
        \/ RouteGenerateInitialReview(r)
        \/ RouteUpdate(r)
        \/ ApplyStart(r)
        \/ ApplyUpdate(r)
        \/ PutStart(r)
        \/ PutUpdate(r)

SpecEssays == RouteInit /\ [][EssaysNext]_vars

(***************************************************************************)
(* SpecSequential: the review and apply-suggestion requests of one client, *)
(* processed one after another: the next request is sent when the response *)
(* of the previous one has arrived.                                        *)
(***************************************************************************)
MaxReviews == 3

SeqContents == {<<"a", " ", "b">>, <<"a", " ", "c">>}

SeqReviewStart == ReviewStart(1, {EssayId}, SeqContents, EssaysIdLists, BOOLEAN)

\* the response has arrived and the handler has returned
SeqComplete ==
    /\ requests[1].pc = "done"
    /\ clock < MaxReviews
    /\ requests' = [requests EXCEPT ![1] = IdleRequest]
    /\ UNCHANGED <<db, clock, uuidsIssued, diffVars, scoreVars, clientVars>>

SeqNext ==
    \/ SeqReviewStart
    \/ RouteGenerateSuggestions(1)
    \/ RouteGenerateInitialReview(1)
    \/ RouteUpdate(1)
    \/ ApplyStart(1)
    \/ ApplyUpdate(1)
    \/ SeqComplete

SpecSequential == RouteInit /\ [][SeqNext]_vars

(***************************************************************************)
(* SpecLoop: the while loop of findTextChanges, one iteration a step.      *)
(***************************************************************************)
\* the loop condition
loopCondition(st) ==
    st.oldIndex < Len(st.oldWords) \/ st.newIndex < Len(st.newWords)

\* an iteration whose simple substitution leaves the new cursor where it is
loopIterationOldOnly(st) ==
    LET oldWords == st.oldWords
        newWords == st.newWords
        oldIndex == st.oldIndex
        newIndex == st.newIndex
        charOffset == st.charOffset
        total == Len(st.oldText)
        after(s) == [s EXCEPT !.running = loopCondition(s)]
    IN
    IF oldIndex >= Len(oldWords)
    THEN [st EXCEPT !.running = FALSE,
                    !.changes = Append(@,
                        TextChange(charOffset, charOffset, <<>>,
                                   Concat(SubSeq(newWords, newIndex + 1, Len(newWords))),
                                   "addition", total))]
    ELSE IF newIndex >= Len(newWords)
    THEN LET deletedText == Concat(SubSeq(oldWords, oldIndex + 1, Len(oldWords)))
         IN  [st EXCEPT !.running = FALSE,
                        !.changes = Append(@,
                            TextChange(charOffset, charOffset + Len(deletedText),
                                       deletedText, <<>>, "deletion", total))]
    ELSE IF oldWords[oldIndex + 1] = newWords[newIndex + 1]
    THEN after([st EXCEPT !.charOffset = @ + Len(oldWords[oldIndex + 1]),
                          !.oldIndex = @ + 1,
                          !.newIndex = @ + 1])
    ELSE LET points == MatchPoints(oldWords, newWords, oldIndex, newIndex)
         IN  IF points # {}
             THEN LET p == FirstMatch(points)
                      oldChange == Concat(SubSeq(oldWords, oldIndex + 1, oldIndex + p[1]))
                      newChange == Concat(SubSeq(newWords, newIndex + 1, newIndex + p[2]))
                  IN  after([st EXCEPT
                        !.changes = Append(@,
                            TextChange(charOffset, charOffset + Len(oldChange),
                                       oldChange, newChange, "modification", total)),
                        !.charOffset = @ + Len(newChange),
                        !.oldIndex = @ + p[1],
                        !.newIndex = @ + p[2]])
             ELSE LET oldChange == oldWords[oldIndex + 1]
                      newChange == newWords[newIndex + 1]
                  IN  after([st EXCEPT
                        !.changes = Append(@,
                            TextChange(charOffset, charOffset + Len(oldChange),
                                       oldChange, newChange, "modification", total)),
                        !.charOffset = @ + Len(newChange),
                        !.oldIndex = @ + 1])

\* one iteration of the loop: the body, then the loop condition
loopIteration(st) ==
    LET oldWords == st.oldWords
        newWords == st.newWords
        oldIndex == st.oldIndex
        newIndex == st.newIndex
        charOffset == st.charOffset
        total == Len(st.oldText)
        after(s) == [s EXCEPT !.running = loopCondition(s)]
    IN
    IF oldIndex >= Len(oldWords)
    THEN \* addition at end, break
         [st EXCEPT !.running = FALSE,
                    !.changes = Append(@,
                        TextChange(charOffset, charOffset, <<>>,
                                   Concat(SubSeq(newWords, newIndex + 1, Len(newWords))),
                                   "addition", total))]
    ELSE IF newIndex >= Len(newWords)
    THEN \* deletion at end, break
         LET deletedText == Concat(SubSeq(oldWords, oldIndex + 1, Len(oldWords)))
         IN  [st EXCEPT !.running = FALSE,
                        !.changes = Append(@,
                            TextChange(charOffset, charOffset + Len(deletedText),
                                       deletedText, <<>>, "deletion", total))]
    ELSE IF oldWords[oldIndex + 1] = newWords[newIndex + 1]
    THEN after([st EXCEPT !.charOffset = @ + Len(oldWords[oldIndex + 1]),
                          !.oldIndex = @ + 1,
                          !.newIndex = @ + 1])
    ELSE LET points == MatchPoints(oldWords, newWords, oldIndex, newIndex)
         IN  IF points # {}
             THEN LET p == FirstMatch(points)
                      oldChange == Concat(SubSeq(oldWords, oldIndex + 1, oldIndex + p[1]))
                      newChange == Concat(SubSeq(newWords, newIndex + 1, newIndex + p[2]))
                  IN  after([st EXCEPT
                        !.changes = Append(@,
                            TextChange(charOffset, charOffset + Len(oldChange),
                                       oldChange, newChange, "modification", total)),
                        !.charOffset = @ + Len(newChange),
                        !.oldIndex = @ + p[1],
                        !.newIndex = @ + p[2]])
             ELSE LET oldChange == oldWords[oldIndex + 1]
                      newChange == newWords[newIndex + 1]
                  IN  after([st EXCEPT
                        !.changes = Append(@,
                            TextChange(charOffset, charOffset + Len(oldChange),
                                       oldChange, newChange, "modification", total)),
                        !.charOffset = @ + Len(newChange),
                        !.oldIndex = @ + 1,
                        !.newIndex = @ + 1])

\* the state at the first test of the loop condition
loopStart(oldText, newText) ==
    LET st == [op |-> "findTextChanges", oldText |-> oldText, newText |-> newText,
               oldWords |-> SplitKeepSpaces(oldText),
               newWords |-> SplitKeepSpaces(newText),
               oldIndex |-> 0, newIndex |-> 0, charOffset |-> 0,
               changes |-> <<>>, iterations |-> 0, running |-> TRUE]
    IN  [st EXCEPT !.running = loopCondition(st)]

LoopInit ==
    /\ \E oldText \in Texts, newText \in Texts : pureCall = loopStart(oldText, newText)
    /\ filterCall = Null
    /\ genCall = Null
    /\ reviewLogic = Null
    /\ editor = Null
    /\ clock = 0
    /\ uuidsIssued = 0
    /\ DiffUnused
    /\ ScoringUnused
    /\ RouteUnused

LoopIteration ==
    /\ pureCall.op = "findTextChanges"
    /\ pureCall.running
    /\ pureCall' = [loopIteration(pureCall) EXCEPT !.iterations = @ + 1]
    /\ UNCHANGED <<filterCall, genCall, reviewLogic, editor, clock, uuidsIssued,
                   diffVars, scoreVars, routeVars>>

LoopNext == LoopIteration

\* the loop runs on: nothing else is scheduled while findTextChanges computes
SpecLoop == LoopInit /\ [][LoopNext]_vars /\ WF_vars(LoopNext)

(***************************************************************************)
(* SpecReviewRoute: the POST handler of app/api/essay-assist/review, which *)
(* takes the applied suggestions and the manual edits from the request.    *)
(* Its scores are whole points.                                            *)
(***************************************************************************)
\* detectChanges of the route: the changes are the manual edits
detectChanges(currentContent, previousContent, appliedSuggestions, manualEdits) ==
    IF currentContent = previousContent
    THEN [type |-> "no_change", changes |-> <<>>]
    ELSE LET changes == [i \in 1..Len(manualEdits) |->
                            [startIndex |-> manualEdits[i].startIndex,
                             endIndex |-> manualEdits[i].endIndex,
                             oldText |-> manualEdits[i].oldText,
                             newText |-> manualEdits[i].newText,
                             category |-> "manual_edit"]]
         IN  IF Len(appliedSuggestions) > 0 /\ Len(manualEdits) = 0
             THEN [type |-> "applied_suggestion", changes |-> changes]
             ELSE [type |-> "manual_edit", changes |-> changes]

\* generateScoreUpdate: the last review with a boost of the overall score;
\* reading overallScore of a null review throws
generateScoreUpdate(lastReview, diffResult) ==
    IF lastReview = Null THEN [threw |-> TRUE, review |-> Null]
    ELSE LET appliedCount == Len(diffResult.changes)
             scoreBoost == Min(3, appliedCount)
         IN  [threw |-> FALSE,
              review |-> [lastReview EXCEPT
                            !.overallScore = Min(100, @ + scoreBoost)]]

ReviewRouteContents == {<<>>, <<"a">>, <<"a", " ", "b">>}

\* previousContent of the body; the empty text is a missing field
ReviewRoutePrevious == {<<>>, <<"a">>}

ManualEdit == [startIndex |-> 0, endIndex |-> 1, oldText |-> <<"a">>, newText |-> <<"b">>]

ReviewRouteEdits == {<<>>, <<ManualEdit>>, <<ManualEdit, ManualEdit>>}

\* lastReviewData of the row
LastReviews ==
    { Null,
      [overallScore |-> 70, suggestions |-> <<"s1", "s2">>],
      [overallScore |-> 99, suggestions |-> <<"s1">>],
      [overallScore |-> 100, suggestions |-> <<>>] }

\* what the language model returns for a focused review
FocusedReplies == {[suggestions |-> <<>>], [suggestions |-> <<"n1">>]}

ReviewRouteInit ==
    /\ pureCall \in [op : {"POST review"}, session : BOOLEAN, assistId : AssistIds,
                     content : ReviewRouteContents,
                     previousContent : ReviewRoutePrevious,
                     appliedSuggestions : IdLists, manualEdits : ReviewRouteEdits,
                     returned : {FALSE}, status : {0}, review : {Null},
                     changeType : {Undefined}, aiCalls : {0},
                     essayAssist : {Null}]
    /\ \E stored \in ReviewRouteContents \ {<<>>}, last \in LastReviews :
            db = [e \in Essays |->
                    [NewRow EXCEPT !.currentContent = stored, !.lastReviewData = last]]
    /\ requests = [r \in Requests |-> IdleRequest]
    /\ filterCall = Null
    /\ genCall = Null
    /\ reviewLogic = Null
    /\ editor = Null
    /\ clock = 1
    /\ uuidsIssued = 0
    /\ DiffUnused
    /\ ScoringUnused

\* the whole handler
ReviewRoutePost ==
    \E reply \in FocusedReplies \cup {Null} :
        /\ pureCall.op = "POST review"
        /\ ~pureCall.returned
        /\ LET call == pureCall
               answer(status) == [call EXCEPT !.returned = TRUE, !.status = status]
               essayAssist == findFirst(db, call.assistId)
           IN
           IF ~call.session
           THEN pureCall' = answer(401) /\ UNCHANGED db
           ELSE IF call.assistId = "" \/ call.content = <<>>
           THEN pureCall' = answer(400) /\ UNCHANGED db
           ELSE IF essayAssist = Null
           THEN pureCall' = answer(404) /\ UNCHANGED db
           ELSE
           LET previous == IF call.previousContent = <<>>
                           THEN essayAssist.currentContent
                           ELSE call.previousContent
               diffResult == detectChanges(call.content, previous,
                                           call.appliedSuggestions, call.manualEdits)
               loaded(status) == [answer(status) EXCEPT !.essayAssist = essayAssist]
               save(review) ==
                    db' = update(db, call.assistId,
                                 [currentContent |-> call.content,
                                  lastReviewData |-> review,
                                  lastReviewAt |-> clock,
                                  updatedAt |-> clock])
           IN
           IF diffResult.type = "no_change"
           THEN pureCall' = loaded(400) /\ UNCHANGED db
           ELSE IF diffResult.type = "applied_suggestion"
           THEN LET update_ == generateScoreUpdate(essayAssist.lastReviewData, diffResult)
                IN  IF update_.threw
                    THEN pureCall' = loaded(500) /\ UNCHANGED db
                    ELSE /\ pureCall' = [loaded(200) EXCEPT
                                            !.review = update_.review,
                                            !.changeType = diffResult.type]
                         /\ save(update_.review)
           ELSE \* manual_edit: generateFocusedReview calls the language model
                IF reply = Null
                THEN pureCall' = [loaded(500) EXCEPT !.aiCalls = 1] /\ UNCHANGED db
                ELSE /\ pureCall' = [loaded(200) EXCEPT
                                        !.review = reply,
                                        !.changeType = diffResult.type,
                                        !.aiCalls = 1]
                     /\ save(reply)
        /\ UNCHANGED <<requests, filterCall, genCall, reviewLogic, editor, clock, uuidsIssued,
                       diffVars, scoreVars>>

ReviewRouteNext == ReviewRoutePost

SpecReviewRoute == ReviewRouteInit /\ [][ReviewRouteNext]_vars

(***************************************************************************)
(* SpecEditor: the editor hook (useEditorStateV2; useEssayEditing has the  *)
(* same handlers).  Time is the clock, in seconds.  A handler reads the    *)
(* state of the render it was created in: the callback of the history      *)
(* timer reads the history and the index of the render in which            *)
(* handleChange ran.  Every setTimeout follows a clearTimeout of the timer *)
(* its ref holds, so each ref has at most one pending timer.  The log      *)
(* keeps the calls of debouncedSave and saveEssayContent in their order.   *)
(***************************************************************************)
MaxTime == 4

MaxEvents == 3

\* the delay of the history timer of handleChange, in seconds
HistoryDelay == 1

\* the delay of the save timer of debouncedSave, in seconds
SaveDelay == 2

EditorTexts == {<<"b">>, <<"c">>}

\* the history the hook is mounted with; the content is its last entry
InitialHistories == { << <<"a">> >>, << <<"a">>, <<"b">> >> }

\* saveEssayContent up to the await of the fetch
saveEssayContent(ed, content, historyData, kind, now) ==
    [ed EXCEPT !.saveStatus = "saving",
               !.inflight = @ \cup {[sentAt |-> now, kind |-> kind,
                                     content |-> content, history |-> historyData]},
               !.log = Append(@, [kind |-> kind, at |-> now,
                                  content |-> content, history |-> historyData])]

debouncedSave(ed, content, historyData, now) ==
    [ed EXCEPT !.saveStatus = "unsaved",
               \* clearTimeout(saveTimeoutRef.current), then setTimeout
               !.saveTimer = [due |-> now + SaveDelay, content |-> content,
                              history |-> historyData],
               !.log = Append(@, [kind |-> "event", at |-> now,
                                  content |-> content, history |-> historyData])]

\* an addToHistory that appends to the whole history
addToHistoryKeepTail(history, currentIndex, content) ==
    LET newHistory == Append(history, content)
    IN  [history |-> newHistory, currentIndex |-> Len(newHistory) - 1]

\* addToHistory on the history and index of a render; the index is 0-based
addToHistory(history, currentIndex, content) ==
    LET newHistory == Append(SubSeq(history, 1, currentIndex + 1), content)
    IN  [history |-> newHistory, currentIndex |-> Len(newHistory) - 1]

handleUndo(ed, now) ==
    IF ed.currentIndex > 0
    THEN LET newIndex == ed.currentIndex - 1
         IN  debouncedSave([ed EXCEPT !.currentIndex = newIndex,
                                      !.content = ed.history[newIndex + 1]],
                           ed.history[newIndex + 1], ed.history, now)
    ELSE ed

handleRedo(ed, now) ==
    IF ed.currentIndex < Len(ed.history) - 1
    THEN LET newIndex == ed.currentIndex + 1
         IN  debouncedSave([ed EXCEPT !.currentIndex = newIndex,
                                      !.content = ed.history[newIndex + 1]],
                           ed.history[newIndex + 1], ed.history, now)
    ELSE ed

\* handleChange: the content, and the history timer with what its callback
\* closes over
handleChange(ed, newContent, now) ==
    [ed EXCEPT !.content = newContent,
               !.historyTimer = [due |-> now + HistoryDelay,
                                 newContent |-> newContent,
                                 history |-> ed.history,
                                 currentIndex |-> ed.currentIndex]]

\* the callback of the history timer
historyTimerCallback(ed, now) ==
    LET timer == ed.historyTimer
        fired == [ed EXCEPT !.historyTimer = Null]
    IN  IF timer.newContent # timer.history[timer.currentIndex + 1]
        THEN LET added == addToHistory(timer.history, timer.currentIndex,
                                       timer.newContent)
             IN  debouncedSave([fired EXCEPT !.history = added.history,
                                             !.currentIndex = added.currentIndex],
                               timer.newContent, added.history, now)
        ELSE fired

handleManualSave(ed, now) ==
    saveEssayContent([ed EXCEPT !.saveTimer = Null],
                     ed.content, ed.history, "manual", now)

\* the state of the handler before and after its call, for the properties
Traced(ed, op, after) ==
    [after EXCEPT !.lastOp = op,
                  !.before = [content |-> ed.content, history |-> ed.history,
                              currentIndex |-> ed.currentIndex,
                              pending |-> ed.historyTimer # Null],
                  !.events = @ + 1]

EditorInit ==
    /\ \E history \in InitialHistories :
        editor = [history |-> history,
                  currentIndex |-> Len(history) - 1,
                  content |-> history[Len(history)],
                  saveStatus |-> "saved",
                  historyTimer |-> Null,
                  saveTimer |-> Null,
                  inflight |-> {},
                  log |-> <<>>,
                  lastOp |-> "mount",
                  before |-> Null,
                  events |-> 0]
    /\ filterCall = Null
    /\ genCall = Null
    /\ reviewLogic = Null
    /\ pureCall = Null
    /\ clock = 0
    /\ uuidsIssued = 0
    /\ DiffUnused
    /\ ScoringUnused
    /\ RouteUnused

EditorUnchanged ==
    UNCHANGED <<filterCall, genCall, reviewLogic, pureCall, uuidsIssued,
                diffVars, scoreVars, routeVars>>

EditorChange ==
    \E newContent \in EditorTexts :
        /\ editor.events < MaxEvents
        /\ editor' = Traced(editor, "change", handleChange(editor, newContent, clock))
        /\ UNCHANGED clock
        /\ EditorUnchanged

EditorUndo ==
    /\ editor.events < MaxEvents
    /\ editor' = Traced(editor, "undo", handleUndo(editor, clock))
    /\ UNCHANGED clock
    /\ EditorUnchanged

EditorRedo ==
    /\ editor.events < MaxEvents
    /\ editor' = Traced(editor, "redo", handleRedo(editor, clock))
    /\ UNCHANGED clock
    /\ EditorUnchanged

EditorManualSave ==
    /\ editor.events < MaxEvents
    /\ editor' = Traced(editor, "manualSave", handleManualSave(editor, clock))
    /\ UNCHANGED clock
    /\ EditorUnchanged

\* the history timer expires
EditorHistoryTimer ==
    /\ editor.historyTimer # Null
    /\ editor.historyTimer.due <= clock
    /\ editor' = [Traced(editor, "historyTimer", historyTimerCallback(editor, clock))
                    EXCEPT !.events = editor.events]
    /\ UNCHANGED clock
    /\ EditorUnchanged

\* the save timer expires: saveEssayContent with the arguments of debouncedSave
EditorSaveTimer ==
    /\ editor.saveTimer # Null
    /\ editor.saveTimer.due <= clock
    /\ editor' = [Traced(editor, "saveTimer",
                         saveEssayContent([editor EXCEPT !.saveTimer = Null],
                                          editor.saveTimer.content,
                                          editor.saveTimer.history, "auto", clock))
                    EXCEPT !.events = editor.events]
    /\ UNCHANGED clock
    /\ EditorUnchanged

\* the fetch of a save settles: resolved, or rejected into the catch
EditorFetchSettles ==
    \E request \in editor.inflight, resolved \in BOOLEAN :
        /\ editor' = [Traced(editor, "fetchSettles",
                             [editor EXCEPT
                                !.inflight = @ \ {request},
                                !.saveStatus = IF resolved THEN "saved" ELSE "unsaved"])
                        EXCEPT !.events = editor.events]
        /\ UNCHANGED clock
        /\ EditorUnchanged

\* a second passes; a timer that is due runs first
EditorTick ==
    /\ clock < MaxTime
    /\ editor.historyTimer # Null => editor.historyTimer.due > clock
    /\ editor.saveTimer # Null => editor.saveTimer.due > clock
    /\ clock' = clock + 1
    /\ UNCHANGED editor
    /\ EditorUnchanged

EditorNext ==
    \/ EditorChange
    \/ EditorUndo
    \/ EditorRedo
    \/ EditorManualSave
    \/ EditorHistoryTimer
    \/ EditorSaveTimer
    \/ EditorFetchSettles
    \/ EditorTick

SpecEditor == EditorInit /\ [][EditorNext]_vars

(***************************************************************************)
(* SpecDiffService: DiffService.detectChanges, a function without state,   *)
(* called on an old version, a new content and the applied suggestions of  *)
(* the frontend.  A similarity is kept as the fraction                     *)
(* (maxLength - distance) / maxLength.                                     *)
(***************************************************************************)
\* the length difference above which detectManualEdits reports an edit
ManualEditLengthDiff == 10

RECURSIVE collapseSpaces(_)
\* replace(/\s+/g, ' ')
collapseSpaces(t) ==
    IF t = <<>> THEN <<>>
    ELSE IF IsSpace(Head(t))
         THEN <<" ">> \o collapseSpaces(SubSeq(t, SpaceRun(t) + 1, Len(t)))
         ELSE <<Head(t)>> \o collapseSpaces(Tail(t))

normalize(text) ==
    toLowerCase(collapseSpaces(Trim(text)))

RECURSIVE levenshteinRow(_, _, _, _, _)
\* row j of the matrix from row j - 1; row[i + 1] is matrix[j][i]
levenshteinRow(str1, ch, previous, row, i) ==
    IF i > Len(str1) THEN row
    ELSE LET indicator == IF str1[i] = ch THEN 0 ELSE 1
             cell == Min(Min(row[i] + 1, previous[i + 1] + 1),
                         previous[i] + indicator)
         IN  levenshteinRow(str1, ch, previous, Append(row, cell), i + 1)

RECURSIVE levenshteinRows(_, _, _, _)
levenshteinRows(str1, str2, previous, j) ==
    IF j > Len(str2) THEN previous[Len(str1) + 1]
    ELSE LET row == levenshteinRow(str1, str2[j], previous, <<j>>, 1)
         IN  \* row j is complete before row j + 1 is computed
             CASE Len(row) = Len(str1) + 1 ->
                    levenshteinRows(str1, str2, row, j + 1)

levenshteinDistance(str1, str2) ==
    levenshteinRows(str1, str2, [i \in 1..(Len(str1) + 1) |-> i - 1], 1)

calculateSimilarity(text1, text2) ==
    LET normalized1 == normalize(text1)
        normalized2 == normalize(text2)
        maxLength == Max(Len(normalized1), Len(normalized2))
    IN  IF normalized1 = normalized2 THEN [num |-> 1, den |-> 1]
        ELSE IF maxLength = 0 THEN [num |-> 1, den |-> 1]
        ELSE [num |-> maxLength - levenshteinDistance(normalized1, normalized2),
              den |-> maxLength]

\* knownSuggestions.map(...) when the frontend sent suggestions; the fallback
\* loop runs over an empty list
detectAppliedSuggestions(oldContent, newContent, knownSuggestions) ==
    IF Len(knownSuggestions) > 0
    THEN [i \in 1..Len(knownSuggestions) |-> knownSuggestions[i]]
    ELSE <<>>

RECURSIVE sortByStartIndexDescending(_)
\* appliedSuggestions.sort((a, b) => b.startIndex - a.startIndex): stable
sortByStartIndexDescending(list) ==
    IF list = <<>> THEN <<>>
    ELSE LET rest == sortByStartIndexDescending(SubSeq(list, 1, Len(list) - 1))
             last == list[Len(list)]
             before == SelectSeq(rest, LAMBDA s : s.startIndex >= last.startIndex)
             after == SelectSeq(rest, LAMBDA s : s.startIndex < last.startIndex)
         IN  before \o <<last>> \o after

RECURSIVE applyInOrder(_, _)
applyInOrder(content, sorted) ==
    IF sorted = <<>> THEN content
    ELSE applyInOrder(Slice(content, 0, Head(sorted).startIndex)
                        \o Head(sorted).newText
                        \o Slice(content, Head(sorted).endIndex, Len(content)),
                      Tail(sorted))

detectManualEdits(oldContent, newContent, appliedSuggestions) ==
    LET contentWithSuggestions ==
            applyInOrder(oldContent, sortByStartIndexDescending(appliedSuggestions))
        lengthDiff == IF Len(newContent) >= Len(contentWithSuggestions)
                      THEN Len(newContent) - Len(contentWithSuggestions)
                      ELSE Len(contentWithSuggestions) - Len(newContent)
        similarity == calculateSimilarity(contentWithSuggestions, newContent)
    IN  IF /\ contentWithSuggestions # newContent
           \* similarity < 0.95 && lengthDiff > 10
           /\ 100 * similarity.num < 95 * similarity.den
           /\ lengthDiff > ManualEditLengthDiff
        THEN << [startIndex |-> 0, endIndex |-> Len(contentWithSuggestions),
                 oldText |-> contentWithSuggestions, newText |-> newContent,
                 quality |-> IF 10 * similarity.num > 8 * similarity.den
                             THEN "improved" ELSE "neutral"] >>
        ELSE <<>>

\* DiffService.determineChangeType
diffServiceDetermineChangeType(appliedSuggestions, manualEdits) ==
    LET hasAppliedSuggestions == Len(appliedSuggestions) > 0
        hasManualEdits == Len(manualEdits) > 0
    IN  IF ~hasAppliedSuggestions /\ ~hasManualEdits THEN "none"
        ELSE IF hasAppliedSuggestions /\ ~hasManualEdits THEN "suggestion_applied"
        ELSE IF ~hasAppliedSuggestions /\ hasManualEdits THEN "manual_edit"
        ELSE "mixed"

\* a 5% change in length, or a manual edit with a text of more than 20
\* characters; a division by the length 0 of the old content gives Infinity
isSignificantChange(oldContent, newContent, manualEdits) ==
    LET lengthChange == IF Len(newContent) >= Len(oldContent)
                        THEN Len(newContent) - Len(oldContent)
                        ELSE Len(oldContent) - Len(newContent)
    IN  \/ IF Len(oldContent) = 0 THEN lengthChange > 0
           ELSE 100 * lengthChange > 5 * Len(oldContent)
        \/ Len(manualEdits) > 3
        \/ \E i \in 1..Len(manualEdits) :
            Len(manualEdits[i].oldText) > 20 \/ Len(manualEdits[i].newText) > 20

\* DiffService.detectChanges; the sort of detectManualEdits is in place, so
\* the suggestions of the result are in its order
diffServiceDetectChanges(oldVersion, newContent, appliedSuggestions) ==
    LET oldContent == oldVersion.content
        detectedAppliedSuggestions ==
            detectAppliedSuggestions(oldContent, newContent, appliedSuggestions)
        detectedManualEdits ==
            detectManualEdits(oldContent, newContent, detectedAppliedSuggestions)
    IN  IF Trim(oldContent) = Trim(newContent)
        THEN [appliedSuggestions |-> <<>>, manualEdits |-> <<>>,
              changeType |-> "none", significantChange |-> FALSE]
        ELSE [appliedSuggestions |->
                    sortByStartIndexDescending(detectedAppliedSuggestions),
              manualEdits |-> detectedManualEdits,
              changeType |-> diffServiceDetermineChangeType(
                                    detectedAppliedSuggestions, detectedManualEdits),
              significantChange |-> isSignificantChange(oldContent, newContent,
                                                        detectedManualEdits)]

RECURSIVE Padded(_, _)
\* the text t followed by n characters
Padded(t, n) == IF n = 0 THEN t ELSE Padded(Append(t, "b"), n - 1)

ServiceContents ==
    {<<>>, <<"a">>, <<"b">>, <<"A">>, <<"a", " ">>,
     Padded(<<"a">>, ManualEditLengthDiff + 1),
     Padded(<<"a", " ", "a">>, ManualEditLengthDiff + 1)}

\* applied suggestions as the frontend sends them
ServiceSuggestion(startIndex, originalText, newText) ==
    [suggestionIndex |-> startIndex, originalText |-> originalText,
     newText |-> newText, startIndex |-> startIndex,
     endIndex |-> startIndex + Len(originalText), appliedAt |-> 1,
     category |-> "Grammar"]

ServiceSuggestionLists ==
    {<<>>,
     <<ServiceSuggestion(0, <<"a">>, <<"b">>)>>,
     <<ServiceSuggestion(0, <<"a">>, <<"b">>), ServiceSuggestion(2, <<"a">>, <<"b">>)>>}

DiffServiceInit ==
    /\ \E oldContent \in ServiceContents, newContent \in ServiceContents,
          appliedSuggestions \in ServiceSuggestionLists :
        pureCall = [op |-> "DiffService.detectChanges",
                    oldVersion |-> [content |-> oldContent],
                    newContent |-> newContent,
                    appliedSuggestions |-> appliedSuggestions,
                    returned |-> FALSE, result |-> Null]
    /\ filterCall = Null
    /\ genCall = Null
    /\ reviewLogic = Null
    /\ editor = Null
    /\ clock = 0
    /\ uuidsIssued = 0
    /\ DiffUnused
    /\ ScoringUnused
    /\ RouteUnused

DiffServiceCall ==
    /\ pureCall.op = "DiffService.detectChanges"
    /\ ~pureCall.returned
    /\ pureCall' = [pureCall EXCEPT
                        !.returned = TRUE,
                        !.result = diffServiceDetectChanges(pureCall.oldVersion,
                                                            pureCall.newContent,
                                                            pureCall.appliedSuggestions)]
    /\ UNCHANGED <<filterCall, genCall, reviewLogic, editor, clock, uuidsIssued,
                   diffVars, scoreVars, routeVars>>

DiffServiceNext == DiffServiceCall

SpecDiffService == DiffServiceInit /\ [][DiffServiceNext]_vars

(***************************************************************************)
(* Properties of the diff (SpecDiff).                                      *)
(***************************************************************************)
RECURSIVE ReplaceSpans(_, _, _)
\* oldText with the span [startIndex, endIndex) of every change replaced by
\* the change's newText; pos is the offset of oldText already copied
ReplaceSpans(oldText, changes, pos) ==
    IF changes = <<>> THEN Slice(oldText, pos, Len(oldText))
    ELSE LET c == Head(changes)
         IN  Slice(oldText, pos, c.startIndex) \o c.newText
                \o ReplaceSpans(oldText, Tail(changes), Max(pos, c.endIndex))

RECURSIVE ApplyInOrder(_, _)
\* the changes applied one after the other, each to the text the previous
\* ones produced
ApplyInOrder(text, changes) ==
    IF changes = <<>> THEN text
    ELSE LET c == Head(changes)
         IN  ApplyInOrder(Slice(text, 0, c.startIndex) \o c.newText
                             \o Slice(text, c.endIndex, Len(text)),
                          Tail(changes))

RegionSet(changes) == {changes[i].region : i \in 1..Len(changes)}

SeqSet(s) == {s[i] : i \in 1..Len(s)}

\* C7: replacing in oldText the span [startIndex, endIndex) of every change
\* returned by findTextChanges(oldText, newText) by the change's newText
\* yields newText.
C7_Reconstruction ==
    lastCall.found =>
        ReplaceSpans(lastCall.oldContent,
                     findTextChanges(lastCall.oldContent, lastCall.newContent), 0)
            = lastCall.newContent

\* C8: when the trimmed old and new contents are equal, the diff computed by
\* addVersion is no_change with no changes, whatever the applied ids are.
C8_TrimmedEqualIsNoChange ==
    (lastCall.found /\ Trim(lastCall.oldContent) = Trim(lastCall.newContent)) =>
        (lastDiff.changeType = "no_change" /\ lastDiff.changes = <<>>)

\* C9: a version with content X added on a version with content X and no
\* applied ids gives no_change, no changes, no applied ids, no regions.
C9_SameContentNoChange ==
    (/\ lastCall.found
     /\ lastCall.oldContent = lastCall.newContent
     /\ lastCall.appliedSuggestionIds = <<>>) =>
        (/\ lastDiff.changeType = "no_change"
         /\ lastDiff.changes = <<>>
         /\ lastDiff.appliedSuggestionIds = <<>>
         /\ lastDiff.affectedRegions = <<>>)

C9_Witness ==
    /\ lastCall.found
    /\ lastCall.oldContent = lastCall.newContent
    /\ Len(lastCall.oldContent) = 3
    /\ lastCall.appliedSuggestionIds = <<>>
    /\ lastDiff.changeType = "no_change"
    /\ Len(versions) = 2

\* C10: for contents that differ the change type is manual_edit without
\* applied ids, suggestion_applied with 1 to 3 and bulk_suggestion_applied
\* with 4 or more, and affectedRegions is the set of the changes' regions.
C10_ClassifyByAppliedCount ==
    (lastCall.found /\ lastCall.oldContent # lastCall.newContent) =>
        (/\ lastDiff.changeType =
                IF Len(lastCall.appliedSuggestionIds) = 0 THEN "manual_edit"
                ELSE IF Len(lastCall.appliedSuggestionIds) <= 3
                     THEN "suggestion_applied"
                     ELSE "bulk_suggestion_applied"
         /\ SeqSet(lastDiff.affectedRegions) = RegionSet(lastDiff.changes)
         /\ Len(lastDiff.changes) >= 1)

C10_Witness ==
    /\ lastCall.found
    /\ lastCall.oldContent # lastCall.newContent
    /\ Len(lastCall.appliedSuggestionIds) = 3
    /\ lastDiff.changeType = "suggestion_applied"
    /\ Cardinality(RegionSet(lastDiff.changes)) = 2
    /\ Len(lastDiff.affectedRegions) = 2

(***************************************************************************)
(* Properties of the scoring system (SpecScore).                           *)
(***************************************************************************)
Band == {Grades[i] : i \in 1..Len(Grades)}

InRange(value) == 0 <= value /\ value <= Pts(100)

IsPrefix(s, t) == Len(s) <= Len(t) /\ SubSeq(t, 1, Len(s)) = s

Calculated == lastTurn.op = "calculateProgressiveScore" /\ ~lastTurn.threw

AppliedTurn ==
    /\ Calculated
    /\ lastTurn.changeType \in {"suggestion_applied", "bulk_suggestion_applied"}
    /\ lastTurn.appliedSuggestionIds # <<>>

\* C1: the overallScore and every metric value of every score that
\* calculateProgressiveScore returned (every score of the history after the
\* baseline) lie in [0, 100].
C1_ScoresWithinRange ==
    \A i \in 2..Len(scoreHistory) :
        /\ InRange(scoreHistory[i].overallScore)
        /\ \A m \in 1..Len(scoreHistory[i].metrics) :
                InRange(scoreHistory[i].metrics[m].value)

\* a manual edit worth +3 on a score of 99 gives 100
C1_Witness ==
    /\ Calculated
    /\ lastTurn.changeType = "manual_edit"
    /\ Len(lastTurn.changes) = 4
    /\ lastTurn.previous.overallScore = Pts(99)
    /\ getLatestScore(scoreHistory).overallScore = Pts(100)

\* C2: with baseline sub-grades from the band, every sub-grade of every score
\* of the history is one of the 13 band grades.
C2_SubGradesInBand ==
    \A i \in 1..Len(scoreHistory) :
        \A g \in 1..Len(scoreHistory[i].subGrades) :
            scoreHistory[i].subGrades[g].grade \in Band

\* C3: a suggestion_applied or bulk_suggestion_applied turn with applied ids
\* returns an overallScore not below the previous one and at most 3 above it.
C3_BoostBetweenZeroAndThree ==
    AppliedTurn =>
        LET new == getLatestScore(scoreHistory).overallScore
            old == lastTurn.previous.overallScore
        IN  old <= new /\ new <= old + Pts(3)

\* four applied suggestions with boosts 1 + 3 + 2 + 1 raise 70 to 73
C3_Witness ==
    /\ AppliedTurn
    /\ lastTurn.changeType = "bulk_suggestion_applied"
    /\ Len(lastTurn.appliedSuggestionIds) = 4
    /\ suggestionImpacts["s2"] # Null
    /\ lastTurn.previous.overallScore = Pts(70)
    /\ getLatestScore(scoreHistory).overallScore = Pts(73)

\* C4: the score history only grows: the history before any call of
\* setBaselineScore or calculateProgressiveScore is a prefix of the history
\* after it.
C4_HistoryOnlyGrows ==
    lastTurn.op # "none" => IsPrefix(lastTurn.historyBefore, scoreHistory)

(***************************************************************************)
(* Properties of the review route.                                         *)
(***************************************************************************)
PersistedVersionIds ==
    IF db[EssayId].diffSystemState = Null THEN {}
    ELSE {db[EssayId].diffSystemState.versions[i][1] :
            i \in 1..Len(db[EssayId].diffSystemState.versions)}

PersistedScores ==
    IF db[EssayId].scoringSystemState = Null THEN {}
    ELSE {db[EssayId].scoringSystemState.scoreHistory[i] :
            i \in 1..Len(db[EssayId].scoringSystemState.scoreHistory)}

\* C5: a review request in which a call of the language model failed, the
\* suggestion call or the initial-scoring call, ends in an error and has not
\* written the essay's row (db.essayAssist.update is the handler's only write
\* of currentContent, lastReviewData, diffSystemState and scoringSystemState).
C5_AIFailureLeavesRowUntouched ==
    \A r \in Requests :
        (requests[r].pc = "done" /\ requests[r].aiFailed)
            => (requests[r].status = 500 /\ ~requests[r].updated)

\* C6: when two review requests whose executions overlapped have both
\* completed, either the persisted version store holds the versions both
\* created and the persisted score history the scores both appended, or one
\* of them was rejected and wrote nothing.
C6_NoLostUpdate ==
    \A p \in Requests, q \in Requests :
        (/\ p \in requests[q].concurrentWith
         /\ requests[p].pc = "done"
         /\ requests[q].pc = "done")
        => \/ requests[p].status # 200 /\ ~requests[p].updated
           \/ requests[q].status # 200 /\ ~requests[q].updated
           \/ /\ requests[p].version.id \in PersistedVersionIds
              /\ requests[q].version.id \in PersistedVersionIds
              /\ [requests[p].score EXCEPT !.timestamp = toJSON(@)] \in PersistedScores
              /\ [requests[q].score EXCEPT !.timestamp = toJSON(@)] \in PersistedScores

(***************************************************************************)
(* Properties of filterSuggestions (SpecFilter).                           *)
(***************************************************************************)
RECURSIVE IsSubsequence(_, _)
\* s is t with some elements left out
IsSubsequence(s, t) ==
    IF s = <<>> THEN TRUE
    ELSE IF t = <<>> THEN FALSE
    ELSE IF Head(s) = Head(t) THEN IsSubsequence(Tail(s), Tail(t))
    ELSE IsSubsequence(s, Tail(t))

\* C11: the output of filterSuggestions is a subsequence of its input in the
\* same order, and holds no suggestion whose uuid is in the applied or the
\* skipped list and none whose non-empty from text is not in the content.
C11_FilterHidesDecidedAndStale ==
    filterCall.returned =>
        /\ IsSubsequence(filterCall.result, filterCall.suggestions)
        /\ \A i \in 1..Len(filterCall.result) :
            LET s == filterCall.result[i]
            IN  /\ ~(s.uuid \in Names(filterCall.filteringState.appliedSuggestions))
                /\ ~(s.uuid \in Names(filterCall.filteringState.skippedSuggestions))
                /\ (s.from # <<>> => Includes(filterCall.content, s.from))

\* of three suggestions one is applied, one has a from text the content has
\* lost, and the one without from text is shown
C11_Witness ==
    /\ filterCall.returned
    /\ filterCall.content = <<"a">>
    /\ filterCall.filteringState.appliedSuggestions = <<"s1">>
    /\ filterCall.filteringState.appliedSuggestionContent = {}
    /\ filterCall.filteringState.skippedSuggestionContent = {}
    /\ [i \in 1..Len(filterCall.suggestions) |-> filterCall.suggestions[i].uuid]
            = <<"s1", "s2", "s3">>
    /\ Len(filterCall.result) = 1
    /\ filterCall.result[1].uuid = "s3"

(***************************************************************************)
(* Properties of generateSuggestions (SpecGenerate).                       *)
(***************************************************************************)
Uuids(suggestions) == [i \in 1..Len(suggestions) |-> suggestions[i].uuid]

\* C12: in a later review whose diff is no_change, suggestion_applied or
\* bulk_suggestion_applied, generateSuggestions calls no language model and
\* returns generationType score_update_only; the suggestions are none for
\* no_change and otherwise the previous suggestions without the applied ids,
\* in their order.
C12_ScoreUpdateOnly ==
    (/\ genCall.returned
     /\ ~genCall.isFirstReview
     /\ genCall.diff.changeType \in {"no_change", "suggestion_applied",
                                     "bulk_suggestion_applied"})
    => /\ ~genCall.calledAI
       /\ genCall.result.generationType = "score_update_only"
       /\ genCall.result.suggestions =
            IF genCall.diff.changeType = "no_change" THEN <<>>
            ELSE SelectSeq(genCall.previousSuggestions,
                           LAMBDA s : \A i \in 1..Len(genCall.appliedSuggestionIds) :
                                        genCall.appliedSuggestionIds[i] # s.uuid)

\* s1 of the previous suggestions s1, s2 was applied: s2 is left
C12_Witness ==
    /\ genCall.returned
    /\ ~genCall.isFirstReview
    /\ genCall.diff.changeType = "suggestion_applied"
    /\ genCall.appliedSuggestionIds = <<"s1">>
    /\ Uuids(genCall.previousSuggestions) = <<"s1", "s2">>
    /\ Uuids(genCall.result.suggestions) = <<"s2">>
    /\ genCall.outcome = "fail"

\* C13: a first review returns generationType full, the focused regions
\* beginning, middle and end, and between 20 and 50 suggestions.
C13_FullReviewCount ==
    (genCall.returned /\ genCall.isFirstReview)
    => /\ genCall.result.generationType = "full"
       /\ genCall.result.focusedRegions = <<"beginning", "middle", "end">>
       /\ 20 <= Len(genCall.result.suggestions)
       /\ Len(genCall.result.suggestions) <= 50

\* C14: in a later review with a manual_edit diff of n >= 1 changes the
\* prompt asks for min(10, 3n) suggestions, generationType is targeted, the
\* focused regions are the diff's affectedRegions and every returned
\* suggestion has priority high.
C14_TargetedReview ==
    (/\ genCall.returned
     /\ ~genCall.isFirstReview
     /\ genCall.diff.changeType = "manual_edit"
     /\ Len(genCall.diff.changes) >= 1)
    => /\ genCall.calledAI
       /\ genCall.asked = (IF 3 * Len(genCall.diff.changes) < 10
                           THEN 3 * Len(genCall.diff.changes) ELSE 10)
       /\ genCall.result.generationType = "targeted"
       /\ genCall.result.focusedRegions = genCall.diff.affectedRegions
       /\ \A i \in 1..Len(genCall.result.suggestions) :
            genCall.result.suggestions[i].priority = "high"

\* a manual edit of four changes: ten suggestions asked, two returned, the
\* one the language model rated low among them
C14_Witness ==
    /\ genCall.returned
    /\ ~genCall.isFirstReview
    /\ genCall.diff.changeType = "manual_edit"
    /\ Len(genCall.diff.changes) = 4
    /\ genCall.asked = 10
    /\ genCall.outcome = "ok"
    /\ Len(genCall.result.suggestions) = 2
    /\ \E i \in 1..Len(AISuggestions) : AISuggestions[i].priority = "low"
    /\ genCall.result.focusedRegions # <<>>

(***************************************************************************)
(* Properties of the score arithmetic (SpecScore).                         *)
(***************************************************************************)
ManualTurn == Calculated /\ lastTurn.changeType = "manual_edit"

Clamp(low, value, high) == IF value < low THEN low ELSE IF value > high THEN high ELSE value

RECURSIVE SumOfDeltas(_)
SumOfDeltas(changes) ==
    IF changes = <<>> THEN 0
    ELSE evaluateChangeQuality(Head(changes)) + SumOfDeltas(Tail(changes))

\* C15: in a manual_edit turn every change has a quality delta in [-2, 2] and
\* the overall score moves by the sum of the deltas clamped to [-5, +3], then
\* clamped to [0, 100]: it drops by at most 5 and rises by at most 3.
C15_ManualEditDelta ==
    ManualTurn =>
        LET new == getLatestScore(scoreHistory).overallScore
            old == lastTurn.previous.overallScore
        IN  /\ \A i \in 1..Len(lastTurn.changes) :
                LET delta == evaluateChangeQuality(lastTurn.changes[i])
                IN  Pts(-2) <= delta /\ delta <= Pts(2)
            /\ new = Clamp(0, old + Clamp(Pts(-5), SumOfDeltas(lastTurn.changes), Pts(3)),
                           Pts(100))
            /\ old - Pts(5) <= new
            /\ new <= old + Pts(3)

\* four changes worth +1 each raise 70 to 73
C15_Witness ==
    /\ ManualTurn
    /\ Len(lastTurn.changes) = 4
    /\ SumOfDeltas(lastTurn.changes) = Pts(4)
    /\ lastTurn.previous.overallScore = Pts(70)
    /\ getLatestScore(scoreHistory).overallScore = Pts(73)

RECURSIVE SumOfBoosts(_)
\* the registered scoreBoost of every applied id, 1 for an id without impact
SumOfBoosts(ids) ==
    IF ids = <<>> THEN 0
    ELSE (IF lastTurn.impacts[Head(ids)] = Null THEN Pts(1)
          ELSE lastTurn.impacts[Head(ids)].scoreBoost)
         + SumOfBoosts(Tail(ids))

\* C16: on a suggestion_applied or bulk_suggestion_applied turn the new
\* overallScore is min(100, previous + min(3, S)), S the sum of the registered
\* boosts of the applied ids, 1 for each id without a registered impact.
C16_AppliedBoostFormula ==
    AppliedTurn =>
        LET new == getLatestScore(scoreHistory).overallScore
            old == lastTurn.previous.overallScore
            S == SumOfBoosts(lastTurn.appliedSuggestionIds)
            capped == IF S < Pts(3) THEN S ELSE Pts(3)
        IN  new = (IF old + capped < Pts(100) THEN old + capped ELSE Pts(100))

\* a baseline of 70 and two applied suggestions of boost 2 give 73
C16_Witness ==
    /\ AppliedTurn
    /\ lastTurn.appliedSuggestionIds = <<"s3", "s5">>
    /\ lastTurn.impacts["s3"] # Null
    /\ lastTurn.impacts["s5"] # Null
    /\ lastTurn.impacts["s3"].scoreBoost = Pts(2)
    /\ lastTurn.impacts["s5"].scoreBoost = Pts(2)
    /\ Len(scoreHistory) = 2
    /\ baselineScore.overallScore = Pts(70)
    /\ getLatestScore(scoreHistory).overallScore = Pts(73)

\* C17: calculateProgressiveScore before any setBaselineScore throws and leaves
\* the history empty; getLatestScore throws exactly while the history is
\* empty; with a baseline calculateProgressiveScore does not throw and appends
\* exactly one score.
C17_BaselineFirst ==
    /\ lastTurn.op = "calculateProgressiveScore" =>
        /\ lastTurn.threw <=> baselineScore = Null
        /\ lastTurn.threw => (lastTurn.historyBefore = <<>> /\ scoreHistory = <<>>)
        /\ ~lastTurn.threw =>
            /\ Len(scoreHistory) = Len(lastTurn.historyBefore) + 1
            /\ IsPrefix(lastTurn.historyBefore, scoreHistory)
    /\ lastTurn.op = "getLatestScore" =>
        (lastTurn.threw <=> lastTurn.historyBefore = <<>>)
    /\ baselineScore = Null => scoreHistory = <<>>

\* the second calculateProgressiveScore after the baseline: three scores
C17_Witness ==
    /\ Calculated
    /\ Len(lastTurn.historyBefore) = 2
    /\ Len(scoreHistory) = 3

(***************************************************************************)
(* Properties of useReviewLogic (SpecHook).                                *)
(***************************************************************************)
\* C18: a uuid that was once in the applied set stays in the applied set, and
\* one that was once in the skipped set stays in the skipped set, through
\* every later edit, apply, skip and review answer.
C18_DecisionsArePermanent ==
    /\ reviewLogic.everApplied \subseteq reviewLogic.appliedSuggestions
    /\ reviewLogic.everSkipped \subseteq reviewLogic.skippedSuggestions

(***************************************************************************)
(* Properties of the version store (SpecStore).                            *)
(***************************************************************************)
\* C19: after every createInitialVersion and addVersion call the versions that
\* were in the store are still there, unmodified; a call that failed left the
\* store as it was; the ids of the stored versions are pairwise distinct; and
\* the parentVersionId of a version is the id of a stored version.
C19_AppendOnlyStore ==
    /\ IsPrefix(lastCall.storeBefore, versions)
    /\ lastCall.threw => versions = lastCall.storeBefore
    /\ \A i, j \in 1..Len(versions) : versions[i].id = versions[j].id => i = j
    /\ \A i \in 1..Len(versions) :
        versions[i].parentVersionId # NoVersion =>
            \E j \in 1..Len(versions) : versions[j].id = versions[i].parentVersionId

\* a failed addVersion on a store of two versions, the second a child of the
\* first
C19_Witness ==
    /\ lastCall.op = "addVersion"
    /\ lastCall.threw
    /\ Len(versions) = 2
    /\ versions[2].parentVersionId = versions[1].id

(***************************************************************************)
(* Properties of the input check of the review route (SpecRoute).          *)
(***************************************************************************)
\* C20: a review request whose content, trimmed, is shorter than 50 characters
\* never gets past the input check of the route: no request with such a
\* content is at the call of the language model or at the update of the row,
\* and the row never holds such a content.
C20_ShortContentRejected ==
    /\ \A r \in Requests :
        ~(requests[r].pc \in {"idle", "done"}) =>
            Len(Trim(requests[r].content)) >= MinReviewLength
    /\ db[EssayId] # NewRow =>
        Len(Trim(db[EssayId].currentContent)) >= MinReviewLength

(***************************************************************************)
(* Properties of generateSuggestionImpact (SpecImpact).                    *)
(***************************************************************************)
\* C21: the impact of a suggestion follows from its category and region:
\* Grammar and Spelling name metric Clarity with boost 1; Word choice and
\* Clarity name Clarity and Quality with boost 2; Tone & voice and Idea
\* strength name Delivery and Quality, sub-grade Uniqueness, boost 3;
\* Structure names Delivery, sub-grade Structure, boost 2; Rephrase names
\* Quality with boost 2; Hook is a sub-grade of the impact exactly when the
\* region is beginning; the boost is between 1 and 3.
C21_ImpactTable ==
    (pureCall.op = "generateSuggestionImpact" /\ pureCall.returned) =>
        LET r == pureCall.result
            c == pureCall.category
            metrics == SeqSet(r.affectedMetrics)
            subGrades == SeqSet(r.affectedSubGrades)
        IN  /\ c \in {"Grammar", "Spelling"} =>
                /\ metrics = {"Clarity"}
                /\ subGrades \ {"Hook"} = {}
                /\ r.scoreBoost = Pts(1)
            /\ c \in {"Word choice", "Clarity"} =>
                /\ metrics = {"Clarity", "Quality"}
                /\ subGrades \ {"Hook"} = {}
                /\ r.scoreBoost = Pts(2)
            /\ c \in {"Tone & voice", "Idea strength"} =>
                /\ metrics = {"Delivery", "Quality"}
                /\ subGrades \ {"Hook"} = {"Uniqueness"}
                /\ r.scoreBoost = Pts(3)
            /\ c = "Structure" =>
                /\ metrics = {"Delivery"}
                /\ subGrades \ {"Hook"} = {"Structure"}
                /\ r.scoreBoost = Pts(2)
            /\ c = "Rephrase" =>
                /\ metrics = {"Quality"}
                /\ subGrades \ {"Hook"} = {}
                /\ r.scoreBoost = Pts(2)
            /\ ("Hook" \in subGrades) <=> (pureCall.region = "beginning")
            /\ Pts(1) <= r.scoreBoost /\ r.scoreBoost <= Pts(3)

\* the impact of a Tone & voice suggestion at the beginning of the essay
C21_Witness ==
    /\ pureCall.op = "generateSuggestionImpact"
    /\ pureCall.returned
    /\ pureCall.category = "Tone & voice"
    /\ pureCall.region = "beginning"
    /\ pureCall.result.affectedSubGrades = <<"Uniqueness", "Hook">>
    /\ pureCall.result.scoreBoost = Pts(3)

(***************************************************************************)
(* Properties of prioritizeAndOrderSuggestions (SpecOrder).                *)
(***************************************************************************)
RegionRank(region) ==
    CASE region = "beginning" -> 1 [] region = "middle" -> 2 [] region = "end" -> 3

PriorityRank(priority) ==
    CASE priority = "high" -> 1 [] priority = "medium" -> 2 [] priority = "low" -> 3

\* a comes no later than b: by region, then by startIndex, then by priority
NoLater(a, b) ==
    \/ RegionRank(a.region) < RegionRank(b.region)
    \/ /\ a.region = b.region
       /\ \/ a.startIndex < b.startIndex
          \/ /\ a.startIndex = b.startIndex
             /\ PriorityRank(a.priority) <= PriorityRank(b.priority)

\* C22: the list prioritizeAndOrderSuggestions returns holds the suggestions
\* it was given, sorted by region (beginning, middle, end), then by ascending
\* startIndex, then by priority (high, medium, low).
C22_OrderedSuggestions ==
    (pureCall.op = "prioritizeAndOrderSuggestions" /\ pureCall.returned) =>
        /\ Len(pureCall.result) = Len(pureCall.suggestions)
        /\ SeqSet(pureCall.result) = SeqSet(pureCall.suggestions)
        /\ \A i, j \in 1..Len(pureCall.result) :
            i < j => NoLater(pureCall.result[i], pureCall.result[j])

\* three suggestions given in the reverse of their order, two of them at the
\* same position
C22_Witness ==
    /\ pureCall.op = "prioritizeAndOrderSuggestions"
    /\ pureCall.returned
    /\ Uuids(pureCall.suggestions) = <<"s4", "s1", "s2">>
    /\ Uuids(pureCall.result) = <<"s2", "s1", "s4">>

C24_OnlyOwnRow ==
    [][/\ \A e \in Essays :
            db'[e] # db[e] =>
                \E r \in Requests :
                    /\ requests[r].assistId = e
                    /\ requests[r].pc \in {"update", "applyUpdate", "putUpdate"}
                    /\ requests'[r].pc = "done"
       /\ \A r \in Requests :
            (requests[r].pc = "idle" /\ requests'[r].essayAssist # Null) =>
                requests'[r].essayAssist = db[requests'[r].assistId]]_vars

\* an apply-suggestion request for one essay and a review of the other that
\* overlapped and both saved: the first row holds the applied suggestion and no
\* review, the second the review and no applied suggestion
C24_Witness ==
    \E p \in Requests, q \in Requests :
        /\ p \in requests[q].concurrentWith
        /\ requests[p].pc = "done" /\ requests[p].updated
        /\ requests[q].pc = "done" /\ requests[q].updated
        /\ requests[p].kind = "applySuggestion" /\ requests[p].assistId = EssayId
        /\ requests[q].kind = "review" /\ requests[q].assistId = OtherEssayId
        /\ Len(db[EssayId].diffSystemState.appliedSuggestions) = 1
        /\ db[EssayId].lastReviewData = Null
        /\ db[OtherEssayId].lastReviewData # Null
        /\ db[OtherEssayId].diffSystemState.appliedSuggestions = <<>>

\* the fields an autosave may change
AutosaveFields == {"currentContent", "history", "wordCount", "updatedAt"}

\* C25: the update of a PUT whose body holds currentContent and history alone
\* changes no field of the row but currentContent, history, wordCount and
\* updatedAt (lastReviewData, diffSystemState and scoringSystemState stay);
\* and the step in which a review request ends in an error changes neither
\* currentContent nor history of the row.
C25_AutosaveAndReviewApart ==
    [][\A r \in Requests :
        (requests[r].pc # "done" /\ requests'[r].pc = "done") =>
            LET done == requests'[r]
                id == done.assistId
            IN  /\ (/\ done.kind = "put"
                    /\ done.status = 200
                    /\ DOMAIN done.body = {"currentContent", "history"}) =>
                        \A f \in DOMAIN db[id] \ AutosaveFields : db'[id][f] = db[id][f]
                /\ (done.kind = "review" /\ done.status # 200) =>
                        \A e \in Essays :
                            /\ db'[e].currentContent = db[e].currentContent
                            /\ db'[e].history = db[e].history]_vars

\* an autosave that saved on a row holding a review and both systems' state:
\* the row has the content of the autosave and still the review and the states
C25_Witness ==
    \E r \in Requests :
        /\ requests[r].kind = "put"
        /\ requests[r].pc = "done"
        /\ requests[r].updated
        /\ DOMAIN requests[r].body = {"currentContent", "history"}
        /\ LET row == db[requests[r].assistId]
           IN  /\ row.currentContent = requests[r].body.currentContent
               /\ row.history = requests[r].body.history
               /\ row.lastReviewData # Null
               /\ row.diffSystemState # Null
               /\ row.scoringSystemState # Null

\* the ids of the versions in the stored diffSystemState of an essay
StoredVersionIds(e) ==
    IF db[e].diffSystemState = Null THEN {}
    ELSE {db[e].diffSystemState.versions[i][1] :
            i \in 1..Len(db[e].diffSystemState.versions)}

RECURSIVE MetricBoostOf(_, _)
\* the scoreBoosts of the applied ids whose registered impact names the metric
MetricBoostOf(ids, label) ==
    IF ids = <<>> THEN 0
    ELSE (IF /\ lastTurn.impacts[Head(ids)] # Null
             /\ label \in SeqSet(lastTurn.impacts[Head(ids)].affectedMetrics)
          THEN lastTurn.impacts[Head(ids)].scoreBoost ELSE 0)
         + MetricBoostOf(Tail(ids), label)

\* the number of applied ids whose registered impact names the sub-grade
NamedBy(ids, label) ==
    Cardinality({i \in 1..Len(ids) :
        /\ lastTurn.impacts[ids[i]] # Null
        /\ label \in SeqSet(lastTurn.impacts[ids[i]].affectedSubGrades)})

\* the grade n band steps above a grade of the band, A+ at most
StepsUp(grade, n) ==
    LET index == CHOOSE i \in 1..Len(Grades) : Grades[i] = grade
    IN  Grades[IF index + n > Len(Grades) THEN Len(Grades) ELSE index + n]

\* C27: on a suggestion_applied or bulk_suggestion_applied turn every metric
\* rises by the sum of the boosts of the applied suggestions whose impact names
\* it, topped at 100 and not capped at 3; every sub-grade of the band rises by
\* one step for each applied suggestion whose impact names it, A+ at most; a
\* metric or sub-grade that no applied suggestion names keeps its value.
C27_MetricAndSubGradeBoosts ==
    AppliedTurn =>
        LET new == getLatestScore(scoreHistory)
            old == lastTurn.previous
            ids == lastTurn.appliedSuggestionIds
        IN  /\ \A m \in 1..Len(old.metrics) :
                LET boost == MetricBoostOf(ids, old.metrics[m].label)
                    raised == old.metrics[m].value + boost
                IN  /\ new.metrics[m].label = old.metrics[m].label
                    /\ new.metrics[m].value =
                            (IF raised > Pts(100) THEN Pts(100) ELSE raised)
                    /\ boost = 0 => new.metrics[m].value = old.metrics[m].value
            /\ \A g \in 1..Len(old.subGrades) :
                LET n == NamedBy(ids, old.subGrades[g].label)
                IN  /\ new.subGrades[g].label = old.subGrades[g].label
                    /\ n = 0 => new.subGrades[g].grade = old.subGrades[g].grade
                    /\ old.subGrades[g].grade \in Band =>
                            new.subGrades[g].grade = StepsUp(old.subGrades[g].grade, n)

\* s2 (Tone & voice, beginning, boost 3) and s3 (Structure, end, boost 2) on
\* the baseline 80/75/70, B+/B/B: Delivery rises by 5, Quality by 3, Clarity
\* stays; every sub-grade rises by one step
C27_Witness ==
    /\ AppliedTurn
    /\ lastTurn.appliedSuggestionIds = <<"s2", "s3">>
    /\ lastTurn.impacts["s2"] # Null
    /\ lastTurn.impacts["s3"] # Null
    /\ lastTurn.previous.metrics = ReviewScores(70, 80, 75, 70, "B+", "B", "B").metrics
    /\ lastTurn.previous.subGrades = ReviewScores(70, 80, 75, 70, "B+", "B", "B").subGrades
    /\ getLatestScore(scoreHistory).metrics
            = ReviewScores(70, 80, 80, 73, "B+", "B", "B").metrics
    /\ getLatestScore(scoreHistory).subGrades
            = ReviewScores(70, 80, 75, 70, "A-", "B+", "B+").subGrades

\* the metrics the region of a change implies
RegionMetrics(region) ==
    CASE region = "beginning" -> {"Clarity"}
      [] region = "middle" -> {"Delivery", "Quality"}
      [] region = "end" -> {"Quality"}
      [] OTHER -> {}

\* the sub-grades the region of a change implies
RegionSubGrades(region) ==
    CASE region = "beginning" -> {"Hook", "Structure"}
      [] region = "middle" -> {"Structure", "Uniqueness"}
      [] region = "end" -> {"Structure"}
      [] OTHER -> {}

RECURSIVE RoutedDelta(_, _, _)
\* the deltas of the changes whose region implies the label, a metric or a
\* sub-grade
RoutedDelta(changes, label, isMetric) ==
    IF changes = <<>> THEN 0
    ELSE (IF label \in (IF isMetric THEN RegionMetrics(Head(changes).region)
                                    ELSE RegionSubGrades(Head(changes).region))
          THEN evaluateChangeQuality(Head(changes)) ELSE 0)
         + RoutedDelta(Tail(changes), label, isMetric)

\* the grade n band steps below a grade of the band, F at least
StepsDown(grade, n) ==
    LET index == CHOOSE i \in 1..Len(Grades) : Grades[i] = grade
    IN  Grades[IF index - n < 1 THEN 1 ELSE index - n]

\* C28: in a manual_edit turn a change in the beginning gives its delta to
\* Clarity, Hook and Structure only, a change in the middle to Delivery,
\* Quality, Structure and Uniqueness only, a change in the end to Quality and
\* Structure only: every metric moves by the sum of the deltas routed to it
\* (kept in 0..100), every sub-grade of the band by the whole steps routed to
\* it, and what the region of no change implies keeps its previous value.
C28_ManualEditRouting ==
    ManualTurn =>
        LET new == getLatestScore(scoreHistory)
            old == lastTurn.previous
            changes == lastTurn.changes
        IN  /\ \A m \in 1..Len(old.metrics) :
                LET label == old.metrics[m].label
                    d == RoutedDelta(changes, label, TRUE)
                IN  /\ new.metrics[m].label = label
                    /\ new.metrics[m].value = Clamp(0, old.metrics[m].value + d, Pts(100))
                    /\ (\A i \in 1..Len(changes) : label \notin RegionMetrics(changes[i].region))
                            => new.metrics[m].value = old.metrics[m].value
            /\ \A g \in 1..Len(old.subGrades) :
                LET label == old.subGrades[g].label
                    d == RoutedDelta(changes, label, FALSE)
                    grade == old.subGrades[g].grade
                IN  /\ new.subGrades[g].label = label
                    /\ (\A i \in 1..Len(changes) : label \notin RegionSubGrades(changes[i].region))
                            => new.subGrades[g].grade = grade
                    /\ d = 0 => new.subGrades[g].grade = grade
                    /\ (grade \in Band /\ d > 0 /\ d % 2 = 0)
                            => new.subGrades[g].grade = StepsUp(grade, d \div 2)
                    /\ (grade \in Band /\ d < 0 /\ d % 2 = 0)
                            => new.subGrades[g].grade = StepsDown(grade, (-d) \div 2)

\* an edit with changes in two regions whose deltas differ
C28_Witness ==
    /\ ManualTurn
    /\ \E i, j \in 1..Len(lastTurn.changes) :
        /\ lastTurn.changes[i].region # lastTurn.changes[j].region
        /\ evaluateChangeQuality(lastTurn.changes[i]) # 0
        /\ evaluateChangeQuality(lastTurn.changes[j]) # 0
    /\ getLatestScore(scoreHistory).metrics # lastTurn.previous.metrics

\* the ids of the applied suggestions in the stored diff state of essay e
StoredAppliedIds(e) ==
    IF db[e].diffSystemState = Null THEN {}
    ELSE {db[e].diffSystemState.appliedSuggestions[i][1] :
            i \in 1..Len(db[e].diffSystemState.appliedSuggestions)}

\* C29: when an apply-suggestion request and a review request for the same
\* essay overlap and both have saved, the stored diff state of the essay holds
\* the record of the applied suggestion and the version the review created.
C29_AppliedSuggestionNeverLost ==
    \A p \in Requests, q \in Requests :
        (/\ requests[p].kind = "applySuggestion"
         /\ requests[q].kind = "review"
         /\ requests[p].assistId = requests[q].assistId
         /\ p \in requests[q].concurrentWith \/ q \in requests[p].concurrentWith
         /\ requests[p].pc = "done" /\ requests[p].updated
         /\ requests[q].pc = "done" /\ requests[q].updated) =>
            /\ requests[p].body.suggestionUuid \in StoredAppliedIds(requests[p].assistId)
            /\ requests[q].version.id \in StoredVersionIds(requests[q].assistId)

\* the region of a start offset in a text of the given length: the ratio
\* start / length below 0.33, below 0.67, or neither
RegionOfRatio(start, length) ==
    IF length # 0 /\ 100 * start < 33 * length THEN "beginning"
    ELSE IF length # 0 /\ 100 * start < 67 * length THEN "middle"
    ELSE "end"

\* C30: for every change findTextChanges(oldText, newText) returns, the span
\* [startIndex, endIndex) of oldText is the change's oldText, and the change's
\* region is the one its startIndex has in oldText.
C30_ChangeSpansOldText ==
    lastCall.found =>
        LET oldText == lastCall.oldContent
            changes == findTextChanges(oldText, lastCall.newContent)
        IN  \A i \in 1..Len(changes) :
                /\ Slice(oldText, changes[i].startIndex, changes[i].endIndex)
                        = changes[i].oldText
                /\ changes[i].region = RegionOfRatio(changes[i].startIndex, Len(oldText))

(***************************************************************************)
(* Properties of reviews processed one after another (SpecSequential).     *)
(***************************************************************************)
\* the versions of the stored diff state of essay e, as deserialize restores them
StoredVersions(table, e) ==
    IF table[e].diffSystemState = Null THEN <<>>
    ELSE diffDeserialize(table[e].diffSystemState).versions

\* C31: with requests processed one after another, the stored versions change
\* only when a review succeeds, which appends its version at the end; a review
\* that is not the first takes the last stored version, the one of the
\* preceding successful review, as the parent of its version; and no stored
\* version is the parent of two versions.
C31_OneChildPerVersion ==
    [][/\ StoredVersions(db', EssayId) # StoredVersions(db, EssayId) =>
            /\ requests[1].kind = "review"
            /\ requests[1].pc = "update"
            /\ requests'[1].status = 200
            /\ StoredVersions(db', EssayId)
                    = Append(StoredVersions(db, EssayId), requests[1].version)
       /\ (/\ requests[1].pc = "idle"
           /\ requests'[1].kind = "review"
           /\ requests'[1].pc = "generateSuggestions"
           /\ ~requests'[1].isFirstReview) =>
                LET stored == StoredVersions(db, EssayId)
                IN  /\ stored # <<>>
                    /\ requests'[1].version.parentVersionId = stored[Len(stored)].id
       /\ LET stored == StoredVersions(db', EssayId)
          IN  \A i, j \in 1..Len(stored) :
                (i # j /\ stored[i].parentVersionId # NoVersion) =>
                    stored[i].parentVersionId # stored[j].parentVersionId]_vars

\* three reviews in a row: the second version is the child of the first and
\* the third the child of the second
C31_Witness ==
    LET stored == StoredVersions(db, EssayId)
    IN  /\ Len(stored) = 3
        /\ stored[1].parentVersionId = NoVersion
        /\ stored[2].parentVersionId = stored[1].id
        /\ stored[3].parentVersionId = stored[2].id
        /\ requests[1].pc = "done"
        /\ requests[1].kind = "review"

(***************************************************************************)
(* Properties of the loop of findTextChanges (SpecLoop).                   *)
(***************************************************************************)
\* C32: the loop of findTextChanges ends for every pair of texts.  An
\* iteration either appends one addition or deletion and ends the loop, or
\* moves both cursors forward by at least one and appends at most one
\* modification; so an addition or deletion is the last change and the only
\* one of its kind, the changes are at most the smaller token count plus one,
\* and the changes of the finished loop are those of findTextChanges.
C32_LoopTerminates ==
    /\ [][pureCall.running =>
            \/ /\ ~pureCall'.running
               /\ Len(pureCall'.changes) = Len(pureCall.changes) + 1
               /\ SubSeq(pureCall'.changes, 1, Len(pureCall.changes)) = pureCall.changes
               /\ pureCall'.changes[Len(pureCall'.changes)].changeType
                        \in {"addition", "deletion"}
            \/ /\ pureCall'.oldIndex >= pureCall.oldIndex + 1
               /\ pureCall'.newIndex >= pureCall.newIndex + 1
               /\ \/ pureCall'.changes = pureCall.changes
                  \/ /\ Len(pureCall'.changes) = Len(pureCall.changes) + 1
                     /\ SubSeq(pureCall'.changes, 1, Len(pureCall.changes))
                            = pureCall.changes
                     /\ pureCall'.changes[Len(pureCall'.changes)].changeType
                            = "modification"]_vars
    /\ [](/\ \A i \in 1..Len(pureCall.changes) :
                pureCall.changes[i].changeType \in {"addition", "deletion"} =>
                    (i = Len(pureCall.changes) /\ ~pureCall.running)
          /\ Len(pureCall.changes)
                <= Min(Len(pureCall.oldWords), Len(pureCall.newWords)) + 1
          /\ ~pureCall.running =>
                pureCall.changes = findTextChanges(pureCall.oldText, pureCall.newText))
    /\ <>(~pureCall.running)

\* "a b" against " a": a modification, two matching tokens and the deletion of
\* the tail, four iterations
C32_Witness ==
    /\ pureCall.op = "findTextChanges"
    /\ ~pureCall.running
    /\ pureCall.iterations >= 3
    /\ Len(pureCall.changes) >= 2
    /\ pureCall.changes[Len(pureCall.changes)].changeType \in {"addition", "deletion"}
    /\ pureCall.changes[1].changeType = "modification"

(***************************************************************************)
(* Properties of the review route that takes the edits from the request    *)
(* (SpecReviewRoute).                                                      *)
(***************************************************************************)
\* C33: a request of a signed-in user for an essay with a last review, whose
\* content differs from the previous content and which lists k >= 1 applied
\* suggestions and no manual edits, calls no language model and answers with
\* the last review, its suggestions kept and its overallScore raised by
\* min(3, k), 100 at most.
C33_AppliedSuggestionScoreUpdate ==
    (/\ pureCall.op = "POST review"
     /\ pureCall.returned
     /\ pureCall.essayAssist # Null
     /\ pureCall.essayAssist.lastReviewData # Null
     /\ pureCall.content #
            (IF pureCall.previousContent = <<>>
             THEN pureCall.essayAssist.currentContent
             ELSE pureCall.previousContent)
     /\ Len(pureCall.appliedSuggestions) >= 1
     /\ pureCall.manualEdits = <<>>) =>
        LET k == Len(pureCall.appliedSuggestions)
            boost == IF k < 3 THEN k ELSE 3
            last == pureCall.essayAssist.lastReviewData
        IN  /\ pureCall.aiCalls = 0
            /\ pureCall.status = 200
            /\ pureCall.changeType = "applied_suggestion"
            /\ pureCall.review.suggestions = last.suggestions
            /\ pureCall.review.overallScore
                    = (IF last.overallScore + boost > 100 THEN 100
                       ELSE last.overallScore + boost)

C35_NoChangeKeepsSuggestions ==
    [][(/\ requests[1].kind = "review"
        /\ requests[1].pc = "update"
        /\ ~requests[1].isFirstReview
        /\ requests[1].diff.changeType = "no_change"
        /\ requests'[1].pc = "done"
        /\ db[EssayId].lastReviewData # Null) =>
            /\ db'[EssayId].lastReviewData # Null
            /\ db'[EssayId].lastReviewData.suggestions
                    = db[EssayId].lastReviewData.suggestions]_vars

\* C37: the stored currentContent of an essay is never rolled back: when an
\* autosave PUT that arrived while a review request was in flight has stored
\* its content, the final write of that review leaves the stored content as
\* it is.
C37_ContentNeverRolledBack ==
    [][\A p \in Requests, q \in Requests :
        (/\ requests[q].kind = "review"
         /\ requests[q].pc = "update"
         /\ requests'[q].pc = "done"
         /\ requests[p].kind = "put"
         /\ requests[p].pc = "done"
         /\ requests[p].updated
         /\ q \in requests[p].concurrentWith
         /\ requests[p].assistId = requests[q].assistId
         /\ "currentContent" \in DOMAIN requests[p].body
         /\ db[requests[p].assistId].currentContent = requests[p].body.currentContent)
            => db'[requests[q].assistId].currentContent
                    = db[requests[q].assistId].currentContent]_vars

(***************************************************************************)
(* Properties of the editor hook                                           *)
(***************************************************************************)
\* C36: whenever no history timer is pending, the content shown is the
\* history entry at the current index, under every interleaving of typing,
\* undo, redo and the expiry of the timer.
C36_ContentIsCurrentEntry ==
    editor.historyTimer = Null =>
        editor.content = editor.history[editor.currentIndex + 1]

\* the history timer holds an edit that no later event has overtaken: the
\* content is still the typed one and the callback reads the current
\* history and index
CommittableEdit(ed) ==
    /\ ed.historyTimer # Null
    /\ ed.historyTimer.newContent = ed.content
    /\ ed.historyTimer.history = ed.history
    /\ ed.historyTimer.currentIndex = ed.currentIndex
    /\ ed.historyTimer.newContent # ed.history[ed.currentIndex + 1]

\* the state values of the hook that the handlers of the history set
Shown(ed) ==
    [content |-> ed.content, history |-> ed.history,
     currentIndex |-> ed.currentIndex]

\* C38: from a non-empty history, after committed edits, undos and redos
\* the index stays inside the history; an undo at index 0 and a redo at the
\* last index change nothing; a redo right after an undo of a committed
\* content shows that content again; and committing an edit drops the
\* entries after the current index and makes the new content the last
\* entry, at the current index.
C38_HistoryNavigation ==
    /\ [](/\ 0 <= editor.currentIndex
          /\ editor.currentIndex < Len(editor.history)
          /\ (editor.lastOp = "undo" /\ editor.before.currentIndex = 0)
                => Shown(editor) = Shown(editor.before)
          /\ (/\ editor.lastOp = "redo"
              /\ editor.before.currentIndex = Len(editor.before.history) - 1)
                => Shown(editor) = Shown(editor.before))
    /\ [][(/\ editor.lastOp = "undo"
           /\ editor.before.currentIndex > 0
           /\ editor.before.content
                = editor.before.history[editor.before.currentIndex + 1]
           /\ editor'.lastOp = "redo"
           /\ editor'.events = editor.events + 1)
            => /\ editor'.content = editor.before.content
               /\ editor'.currentIndex = editor.before.currentIndex
               /\ editor'.history = editor.before.history]_vars
    /\ [][(CommittableEdit(editor) /\ editor'.historyTimer = Null)
            => /\ editor'.history
                    = Append(SubSeq(editor.history, 1, editor.currentIndex + 1),
                             editor.content)
               /\ editor'.currentIndex = Len(editor'.history) - 1
               /\ editor'.content = editor'.history[Len(editor'.history)]]_vars

\* an edit typed after an undo has been committed: the entry after the
\* index is gone and the new content is the last entry
C38_Witness ==
    /\ editor.lastOp = "historyTimer"
    /\ editor.before.currentIndex + 1 < Len(editor.before.history)
    /\ editor.before.content = editor.content
    /\ editor.history = Append(SubSeq(editor.before.history, 1,
                                      editor.before.currentIndex + 1),
                               editor.content)
    /\ editor.currentIndex = Len(editor.history) - 1

\* every autosave request follows, SaveDelay seconds later, the call of
\* debouncedSave before it in the log, with the content and history of that
\* call: the calls in between less than SaveDelay apart sent nothing
OneAutosavePerBurst ==
    \A j \in 1..Len(editor.log) :
        editor.log[j].kind = "auto"
            => /\ j > 1
               /\ editor.log[j - 1].kind = "event"
               /\ editor.log[j - 1].content = editor.log[j].content
               /\ editor.log[j - 1].history = editor.log[j].history
               /\ editor.log[j].at = editor.log[j - 1].at + SaveDelay

\* a manual save leaves no autosave pending
ManualSaveCancelsAutosave ==
    editor.lastOp = "manualSave" => editor.saveTimer = Null

\* C40: a burst of committed edits, undos and redos less than 2 seconds
\* apart leads to exactly one autosave request, sent after the burst with
\* the content and history of its last event; a manual save cancels the
\* pending autosave; and from the first event until a save completes the
\* status is unsaved.  The last part is stated for the time in which the
\* autosave of the event is still pending, before any request for it.
C40_BurstAutosaveAndStatus ==
    /\ OneAutosavePerBurst
    /\ ManualSaveCancelsAutosave
    /\ editor.saveTimer # Null => editor.saveStatus = "unsaved"

\* C39: DiffService.detectChanges returns the change type none only when the
\* trimmed old and new contents are equal: for a changed content the type is
\* suggestion_applied, manual_edit or mixed, and it is mixed exactly when the
\* result has both applied suggestions and manual edits.
C39_NoneOnlyWhenUnchanged ==
    (pureCall.op = "DiffService.detectChanges" /\ pureCall.returned) =>
        /\ pureCall.result.changeType = "none"
            => Trim(pureCall.oldVersion.content) = Trim(pureCall.newContent)
        /\ Trim(pureCall.oldVersion.content) # Trim(pureCall.newContent)
            => pureCall.result.changeType
                    \in {"suggestion_applied", "manual_edit", "mixed"}
        /\ pureCall.result.changeType = "mixed"
            <=> /\ Len(pureCall.result.appliedSuggestions) > 0
                /\ Len(pureCall.result.manualEdits) > 0

====
